---- MODULE Spec2Model ----
(***************************************************************************)
(* Pygasus: identity-mapped persistence with nested transactions.          *)
(*                                                                         *)
(* The model follows pygasus/schema (database.py, transaction.py,          *)
(* mapper.py, field.py, model.py), pygasus/query/query.py,                 *)
(* pygasus/engine/generic/table.py and pygasus/engine/sqlite/engine.py.    *)
(*                                                                         *)
(* Python values are encoded as integers: None is 0, a model instance is   *)
(* its object number (an element of Obj), a scalar value or a key is a    *)
(* positive integer.  A Field's `memory` dictionary misses a key exactly   *)
(* when the model holds None for it (Field.__get__ reads memory.get(id),   *)
(* which is None in both cases).  The key (None,) of the identity map is   *)
(* key 0.                                                                  *)
(***************************************************************************)
EXTENDS Integers, Sequences, FiniteSets, TLC

\* ---- bounds -------------------------------------------------------------
MaxObjects == 2
MaxValue == 2
MaxDepth == 2
MaxSavepoints == 1

None == 0
\* Spec constructs MaxObjects instances, SpecCreate one more, SpecRel
\* MaxObjects of each of its two models.
Obj == 1..(2 * MaxObjects)
Keys == 0..(2 * MaxObjects)
Values == 1..MaxValue
Exceptions == {"InterruptedError", "ValueError"}

\* ---- the bound models: test_mapper.Car, test_one2one.Book / Author ------
\* Every model keeps its primary key, one of its scalar fields and its
\* relation field.
Models == {"Car", "Book", "Author"}

\* Field order of a model's schema; `id` is the synthesized primary key.
FieldNames(m) ==
    CASE m = "Car" -> <<"id", "price">>
      [] m = "Book" -> <<"id", "title", "author">>
      [] m = "Author" -> <<"id", "name", "book">>

FieldIds == UNION {{<<m, FieldNames(m)[i]>> : i \in 1..Len(FieldNames(m))} : m \in Models}

\* field_type of a field that is another model (None for scalar fields)
RelationTo(m, f) ==
    CASE m = "Book" /\ f = "author" -> "Author"
      [] m = "Author" /\ f = "book" -> "Book"
      [] OTHER -> "none"

IsRelation(m, f) == RelationTo(m, f) # "none"

\* the mirror field, as set by MetaModel.complete_fields
Mirror(m, f) ==
    CASE m = "Book" /\ f = "author" -> <<"Author", "book">>
      [] m = "Author" /\ f = "book" -> <<"Book", "author">>

\* Author.book = None is the only declared default
HasDefault(m, f) == m = "Author" /\ f = "book"

\* Field.set_by_database: field_type is int and primary_key
SetByDatabase(m, f) == f = "id"

VARIABLES
    memory,      \* Field.memory of every field: [FieldIds -> [Obj -> value]]
    hasInit,     \* instance._has_init
    objModel,    \* type(instance), "none" for an object not yet allocated
    nextObj,     \* number of the next instance to be constructed
    idMapper,    \* IDMapper.objects: [Models -> [Keys -> Obj or None]]
    db,          \* the SQLite database: rows of every table, sqlite_sequence
    sqlStack,    \* SQLite's open transaction and savepoints, with saved data
    txs,         \* the entered Transaction objects (innermost last)
    current,     \* Database._current_transaction (index in txs, 0 = None)
    savepointId, \* Sqlite3Engine.savepoint_id: the last value next() returned
    queries,     \* the Query objects select has returned, with their `results`
    obtained,    \* the Transaction objects obtained and not entered yet
    lookups,     \* history: objects returned by get / select, per model and key
    created,     \* history: objects returned by Model.create
    txLog,       \* history: what happened inside every entered transaction
    event        \* history: the operation that has just completed

vars == <<memory, hasInit, objModel, nextObj, idMapper, db, sqlStack, txs,
          current, savepointId, queries, obtained, lookups, created, txLog, event>>

\* The program state as one record, threaded through the handlers.
St ==
    [memory |-> memory, hasInit |-> hasInit, objModel |-> objModel,
     nextObj |-> nextObj, idMapper |-> idMapper, db |-> db,
     sqlStack |-> sqlStack, txs |-> txs, current |-> current,
     savepointId |-> savepointId, queries |-> queries,
     obtained |-> obtained]

Install(S) ==
    /\ memory' = S.memory
    /\ hasInit' = S.hasInit
    /\ objModel' = S.objModel
    /\ nextObj' = S.nextObj
    /\ idMapper' = S.idMapper
    /\ db' = S.db
    /\ sqlStack' = S.sqlStack
    /\ txs' = S.txs
    /\ current' = S.current
    /\ savepointId' = S.savepointId
    /\ queries' = S.queries
    /\ obtained' = S.obtained

\* ---- IDMapper (schema/mapper.py) ------------------------------------------
\* IDMapper.get(model, primary): objects.get(model, {}).get(fields)
IDMapperGet(S, m, k) == S.idMapper[m][k]

\* a variant of IDMapper.set without the early return: the last writer wins
IDMapperSetOverwrite(S, m, k, o) == [S EXCEPT !.idMapper[m][k] = o]

\* IDMapper.set: returns at once when get() finds an entry (first writer wins)
IDMapperSet(S, m, k, o) ==
    IF IDMapperGet(S, m, k) # None
    THEN S
    ELSE [S EXCEPT !.idMapper[m][k] = o]

\* mapper.get(...) as HasOne calls it, with the content of a HasOne memory
\* cell: None, or the primary-key tuple of the partner.
IDMapperGetRef(S, m, ref) == IF ref = None THEN None ELSE IDMapperGet(S, m, ref)

\* ---- Sqlite3Engine (engine/sqlite/engine.py) and SQLite itself ------------
TableColumns(m) ==
    CASE m = "Car" -> {"price"}
      [] m = "Book" -> {"title", "author_id"}
      [] m = "Author" -> {"name"}

RowKeys(S, m) == DOMAIN S.db.rows[m]

\* INSERT on an INTEGER PRIMARY KEY AUTOINCREMENT table: the key is one more
\* than the largest key the table ever held (sqlite_sequence, which is part
\* of the database and so of every transaction); cursor.lastrowid returns it.
LastRowId(S, m) == S.db.seq[m] + 1

InsertRow(S, m, columns) ==
    LET k == LastRowId(S, m)
        row == [c \in TableColumns(m) |->
                   IF c \in DOMAIN columns THEN columns[c] ELSE None]
    IN [S EXCEPT !.db.rows[m] = (k :> row) @@ @,
                 !.db.seq[m] = k]

\* UPDATE ... SET column=? WHERE id=?  (no row: nothing happens)
UpdateRow(S, m, k, column, value) ==
    IF k \in RowKeys(S, m)
    THEN [S EXCEPT !.db.rows[m][k][column] = value]
    ELSE S

\* DELETE FROM ... WHERE id=?
DeleteRow(S, m, k) ==
    [S EXCEPT !.db.rows[m] = [j \in RowKeys(S, m) \ {k} |-> @[j]]]

\* get_row with the filter id=k: None, or the row's dictionary
GetRow(S, m, k) == IF k \in RowKeys(S, m) THEN k ELSE None

\* a variant of begin_transaction whose counter is read but not advanced
BeginTransactionSameId(S, t) ==
    IF S.txs[t].parent # None
    THEN [S EXCEPT !.txs[t].savepoint = S.savepointId + 1,
                   !.sqlStack = Append(@, [name |-> S.savepointId + 1, db |-> S.db])]
    ELSE [S EXCEPT !.sqlStack = Append(@, [name |-> 0, db |-> S.db])]

\* begin_transaction: SAVEPOINT sp<n> for a transaction with a parent,
\* BEGIN TRANSACTION otherwise.  sqlStack keeps what SQLite can go back to.
BeginTransaction(S, t) ==
    IF S.txs[t].parent # None
    THEN LET id == S.savepointId + 1
         IN [S EXCEPT !.savepointId = id,
                      !.txs[t].savepoint = id,
                      !.sqlStack = Append(@, [name |-> id, db |-> S.db])]
    ELSE [S EXCEPT !.sqlStack = Append(@, [name |-> 0, db |-> S.db])]

SavepointIndex(S, id) ==
    CHOOSE i \in 1..Len(S.sqlStack) : S.sqlStack[i].name = id

\* commit_transaction: RELEASE SAVEPOINT sp<n> / COMMIT
CommitTransaction(S, t) ==
    IF S.txs[t].parent # None
    THEN [S EXCEPT !.sqlStack =
              SubSeq(@, 1, SavepointIndex(S, S.txs[t].savepoint) - 1)]
    ELSE [S EXCEPT !.sqlStack = <<>>]

\* a variant of rollback_transaction that releases or commits instead
RollbackTransactionAsCommit(S, t) == CommitTransaction(S, t)

\* rollback_transaction: ROLLBACK TRANSACTION TO SAVEPOINT sp<n> (the
\* savepoint itself stays open in SQLite) / ROLLBACK
RollbackTransaction(S, t) ==
    IF S.txs[t].parent # None
    THEN LET i == SavepointIndex(S, S.txs[t].savepoint)
         IN [S EXCEPT !.db = S.sqlStack[i].db,
                      !.sqlStack = SubSeq(@, 1, i)]
    ELSE [S EXCEPT !.db = S.sqlStack[1].db,
                   !.sqlStack = <<>>]

\* the statement begin_transaction hands to _execute, with the number of the
\* savepoint it names (0: none)
BeginStatement(S, t) ==
    IF S.txs[t].parent # None
    THEN [sql |-> "SAVEPOINT", id |-> S.savepointId + 1]
    ELSE [sql |-> "BEGIN TRANSACTION", id |-> 0]

\* the statement commit_transaction hands to _execute
CommitStatement(S, t) ==
    IF S.txs[t].parent # None
    THEN [sql |-> "RELEASE SAVEPOINT", id |-> S.txs[t].savepoint]
    ELSE [sql |-> "COMMIT", id |-> 0]

\* a variant of rollback_transaction that issues the statements of
\* commit_transaction
RollbackStatementAsCommit(S, t) == CommitStatement(S, t)

\* the statement rollback_transaction hands to _execute
RollbackStatement(S, t) ==
    IF S.txs[t].parent # None
    THEN [sql |-> "ROLLBACK TRANSACTION TO SAVEPOINT", id |-> S.txs[t].savepoint]
    ELSE [sql |-> "ROLLBACK", id |-> 0]

\* ---- GenericTable (engine/generic/table.py) --------------------------------
\* Model._primary_values: getattr(self, "id")
PrimaryValues(S, o) == S.memory[<<S.objModel[o], "id">>][o]

\* getattr(model, self.primary.name, None) of OneToOneColumn
PrimaryOf(S, v) == IF v = None THEN None ELSE PrimaryValues(S, v)

\* prepare_columns(fields) where `fields` is a function field name -> value:
\* a scalar field goes to the column of its name; the one-to-one column
\* author_id of the book table answers for the field `author`
\* (OneToOneColumn.retrieve_additional_columns); the author table holds no
\* column for `book`, whose opposite field `author` has no default.
PrepareColumns(S, m, fields) ==
    LET direct == {f \in DOMAIN fields : f \in TableColumns(m)}
        scalar == [c \in direct |-> fields[c]]
    IN IF m = "Book" /\ "author" \in DOMAIN fields
       THEN scalar @@ ("author_id" :> PrimaryOf(S, fields["author"]))
       ELSE scalar

\* the loop `for column, col_value in columns.items(): engine.update_row(...)`
RECURSIVE UpdateRows(_, _, _, _)
UpdateRows(S, m, k, columns) ==
    IF DOMAIN columns = {}
    THEN S
    ELSE LET c == CHOOSE x \in DOMAIN columns : TRUE
             rest == [x \in DOMAIN columns \ {c} |-> columns[x]]
         IN UpdateRows(UpdateRow(S, m, k, c, columns[c]), m, k, rest)

\* ---- Field and HasOne (schema/field.py) ------------------------------------
\* Field.__get__
FieldGet(S, o, f) == S.memory[<<S.objModel[o], f>>][o]

\* HasOne.__get__: the identity map resolves the stored primary key
HasOneGet(S, o, f) ==
    LET m == S.objModel[o]
    IN IDMapperGetRef(S, Mirror(m, f)[1], S.memory[<<m, f>>][o])

\* getattr(instance, name)
GetAttr(S, o, f) ==
    IF IsRelation(S.objModel[o], f) THEN HasOneGet(S, o, f) ELSE FieldGet(S, o, f)

\* the snapshot `{field.name: getattr(instance, field.name) for field in ...}`
Attrs(S, o) ==
    LET names == FieldNames(S.objModel[o])
    IN [i \in 1..Len(names) |-> [name |-> names[i], value |-> GetAttr(S, o, names[i])]]

InObjects(S, t, o) == \E i \in 1..Len(S.txs[t].objects) : S.txs[t].objects[i].obj = o

\* Database.update_instance / delete_instance, first part: the current
\* transaction records the instance's attributes unless it already holds it
Snapshot(S, o) ==
    IF S.current # None /\ ~InObjects(S, S.current, o)
    THEN [S EXCEPT !.txs[S.current].objects =
              Append(@, [obj |-> o, attrs |-> Attrs(S, o)])]
    ELSE S

\* Database.update_instance, second part: the columns of the field are
\* written to the instance's row
UpdateColumns(S, o, f, value) ==
    UpdateRows(S, S.objModel[o], PrimaryValues(S, o),
               PrepareColumns(S, S.objModel[o], (f :> value)))

\* Database.update_instance(instance, field, value, propagate=False)
UpdateInstance(S, o, f, value) == UpdateColumns(Snapshot(S, o), o, f, value)

\* mapper.set(type(instance), instance._primary_values, instance)
RegisterInstance(S, o) == IDMapperSet(S, S.objModel[o], PrimaryValues(S, o), o)

\* Field.__set__: `if has_init: self._database.update_instance(...)`
UpdateIfInit(S, o, f, value) ==
    IF S.hasInit[o] THEN UpdateInstance(S, o, f, value) ELSE S

\* Field.__set__: `self.memory[identifier] = value`
StoreMemory(S, o, f, value) == [S EXCEPT !.memory[<<S.objModel[o], f>>][o] = value]

\* Field.__set__ of a field that is not set by the database, or of any
\* field while _has_init is False
FieldSet(S, o, f, value) ==
    StoreMemory(UpdateIfInit(RegisterInstance(S, o), o, f, value), o, f, value)

\* HasOne.__set__: old_value and old_mirror are looked up, then each loses
\* its link
HasOneClear(S, o, f, value) ==
    LET m == S.objModel[o]
        mir == Mirror(m, f)
        old_value == IF value = None
                     THEN None
                     ELSE IDMapperGetRef(S, m, S.memory[mir][value])
        old_mirror == IDMapperGetRef(S, mir[1], S.memory[<<m, f>>][o])
        cleared == IF old_value # None
                   THEN [S.memory EXCEPT ![<<m, f>>][old_value] = None]
                   ELSE S.memory
    IN [S EXCEPT !.memory = IF old_mirror # None
                            THEN [cleared EXCEPT ![mir][old_mirror] = None]
                            ELSE cleared]

\* HasOne.__set__: `self.memory[identifier] = primary`
HasOneStore(S, o, f, value) == StoreMemory(S, o, f, PrimaryOf(S, value))

\* HasOne.__set__: `self.mirror.memory[hash(value)] = instance._primary_values`
MirrorStore(S, o, f, value) ==
    [S EXCEPT !.memory[Mirror(S.objModel[o], f)][value] = PrimaryValues(S, o)]

\* HasOne.__set__, `if value:` branch: the partner's row is updated, its
\* mirror cell set and the partner registered in the identity map
HasOneLink(S, o, f, value) ==
    IF value = None
    THEN S
    ELSE RegisterInstance(
             MirrorStore(UpdateInstance(S, value, Mirror(S.objModel[o], f)[2], o),
                         o, f, value),
             value)

\* a variant of HasOne.__set__ that leaves the previous partners alone
HasOneSetKeepOld(S, o, f, value) ==
    HasOneLink(HasOneStore(S, o, f, value), o, f, value)

\* HasOne.__set__
HasOneSet(S, o, f, value) ==
    HasOneLink(HasOneStore(HasOneClear(S, o, f, value), o, f, value), o, f, value)

\* setattr(instance, name, value)
SetAttr(S, o, f, value) ==
    IF IsRelation(S.objModel[o], f)
    THEN HasOneSet(S, o, f, value)
    ELSE FieldSet(S, o, f, value)

\* Model.__init__: `self._has_init = False` of the new instance S.nextObj
InitNew(S, m) ==
    [S EXCEPT !.objModel[S.nextObj] = m, !.hasInit[S.nextObj] = FALSE,
              !.nextObj = S.nextObj + 1]

\* `obj._has_init = False` / `obj._has_init = True`
SetHasInit(S, o, flag) == [S EXCEPT !.hasInit[o] = flag]

\* one item of kwargs in a pass of Model.__init__: the first pass sets the
\* scalar values that are not None, the second the values that are instances
InitOne(S, o, d, relations) ==
    IF d.value # None /\ IsRelation(S.objModel[o], d.name) = relations
    THEN SetAttr(S, o, d.name, d.value)
    ELSE S

\* one pass of Model.__init__ over kwargs
RECURSIVE InitPass(_, _, _, _)
InitPass(S, o, data, relations) ==
    IF data = <<>>
    THEN S
    ELSE InitPass(InitOne(S, o, Head(data), relations), o, Tail(data), relations)

\* Model.__init__(**data): the new instance is object S.nextObj
ModelInit(S, m, data) ==
    SetHasInit(InitPass(InitPass(InitNew(S, m), S.nextObj, data, FALSE),
                        S.nextObj, data, TRUE),
               S.nextObj, TRUE)

AsFunction(fields) ==
    [n \in {fields[i].name : i \in 1..Len(fields)} |->
        (CHOOSE i \in 1..Len(fields) : fields[i].name = n) ]

FieldValues(fields) ==
    LET ix == AsFunction(fields) IN [n \in DOMAIN ix |-> fields[ix[n]].value]

\* Database.create_instance(model, fields): `fields` is the bound schema in
\* field order; the result is object S.nextObj
CreateInstance(S, m, fields) ==
    RegisterInstance(
        ModelInit(InsertRow(S, m, PrepareColumns(S, m, FieldValues(fields))),
                  m, <<[name |-> "id", value |-> LastRowId(S, m)]>> \o fields),
        S.nextObj)

\* the dictionary _get_dict_of_values builds from a row, restricted to the
\* names that are fields of the model
RowData(S, m, k) ==
    LET f == FieldNames(m)[2]
    IN << [name |-> "id", value |-> k],
          [name |-> f, value |-> S.db.rows[m][k][f]] >>

\* the common end of get_instance and Query.execute for one row: the
\* instance of the identity map, or a new instance that is registered
Materialize(S, m, k) ==
    IF IDMapperGet(S, m, k) # None
    THEN [state |-> S, result |-> IDMapperGet(S, m, k)]
    ELSE [state |-> IDMapperSet(ModelInit(S, m, RowData(S, m, k)), m, k, S.nextObj),
          result |-> S.nextObj]

\* Database.get_instance(model, {id: k})
GetInstance(S, m, k) ==
    IF GetRow(S, m, k) = None
    THEN [state |-> S, result |-> None]
    ELSE Materialize(S, m, k)

\* a variant of the second part of delete_instance that leaves the row
DeleteStoredKeepRow(S, o) == SetHasInit(S, o, FALSE)

\* Database.delete_instance, second part: delete_row and _has_init = False
DeleteStored(S, o) ==
    SetHasInit(DeleteRow(S, S.objModel[o], PrimaryValues(S, o)), o, FALSE)

\* Database.delete_instance
DeleteInstance(S, o) == DeleteStored(Snapshot(S, o), o)

\* ---- Query (query/query.py) ------------------------------------------------
\* select_rows for the query `field == v` on the scalar field of the model:
\* the keys of the matching rows
SelectRows(S, m, v) ==
    {k \in RowKeys(S, m) : S.db.rows[m][k][FieldNames(m)[2]] = v}

\* Query.execute: every row, in rowid order, becomes an instance
RECURSIVE ExecuteRows(_, _, _, _)
RECURSIVE ExecuteNext(_, _, _, _)
ExecuteNext(r, m, keys, results) ==
    ExecuteRows(r.state, m, keys, Append(results, r.result))

FirstKey(keys) == CHOOSE x \in keys : \A y \in keys : x <= y

ExecuteRows(S, m, keys, results) ==
    IF keys = {}
    THEN [state |-> S, results |-> results]
    ELSE ExecuteNext(Materialize(S, m, FirstKey(keys)), m,
                     keys \ {FirstKey(keys)}, results)

QueryExecute(S, m, v) == ExecuteRows(S, m, SelectRows(S, m, v), <<>>)

\* ---- Transaction (schema/transaction.py) -----------------------------------
\* `self.database._current_transaction = self` of Transaction.__enter__, for a
\* Transaction object whose parent is `parent`
NewTransactionOf(S, parent) ==
    [S EXCEPT !.txs = Append(@, [parent |-> parent, objects |-> <<>>, savepoint |-> 0]),
              !.current = Len(S.txs) + 1]

\* Database.transaction, then `self.database._current_transaction = self` of
\* Transaction.__enter__
NewTransaction(S) == NewTransactionOf(S, S.current)

\* Database.transaction: the object keeps the transaction current now as its
\* parent
DatabaseTransaction(S) == [S EXCEPT !.obtained = Append(@, [parent |-> S.current])]

\* SQLite refuses BEGIN TRANSACTION while a transaction is open ("cannot start
\* a transaction within a transaction"); _execute raises RuntimeError
SqliteRejectsBegin(S, t) == S.txs[t].parent = None /\ S.sqlStack # <<>>

\* begin_transaction as __enter__ calls it, with what it raises
BeginOrRaise(S, t) ==
    IF SqliteRejectsBegin(S, t)
    THEN [state |-> S, raised |-> "RuntimeError"]
    ELSE [state |-> BeginTransaction(S, t), raised |-> ""]

\* Transaction.__enter__ of the i-th object obtained earlier
EnterObtained(S, i) ==
    BeginOrRaise(
        NewTransactionOf([S EXCEPT !.obtained = SubSeq(@, 1, i - 1) \o SubSeq(@, i + 1, Len(@))],
                         S.obtained[i].parent),
        Len(S.txs) + 1)

\* Database.transaction followed by Transaction.__enter__: the engine begins
\* the transaction that is now current
TransactionEnter(S) == BeginTransaction(NewTransaction(S), Len(S.txs) + 1)

RECURSIVE RestoreAttrs(_, _, _)
RestoreAttrs(S, o, attrs) ==
    IF attrs = <<>>
    THEN S
    ELSE RestoreAttrs(SetAttr(S, o, Head(attrs).name, Head(attrs).value),
                      o, Tail(attrs))

\* __exit__: one object of the transaction gets its recorded attributes back
RestoreOne(S, e) ==
    SetHasInit(RestoreAttrs(SetHasInit(S, e.obj, FALSE), e.obj, e.attrs),
               e.obj, TRUE)

\* the loop of __exit__ that restores the transaction's objects
RECURSIVE Restore(_, _)
Restore(S, objects) ==
    IF objects = <<>>
    THEN S
    ELSE Restore(RestoreOne(S, Head(objects)), Tail(objects))

\* a variant of __exit__ that leaves the pointer where it is
LeaveTransactionKeep(S) == S

\* __exit__: `self.database._current_transaction = self.parent`
LeaveTransaction(S) == [S EXCEPT !.current = S.txs[Len(S.txs)].parent]

\* __exit__ with an exception, up to the engine call: the pointer goes back to
\* the parent and the snapshots are replayed
ReplaySnapshots(S) == Restore(LeaveTransaction(S), S.txs[Len(S.txs)].objects)

\* the Transaction object is dropped once __exit__ is over
DropTransaction(S) == [S EXCEPT !.txs = SubSeq(@, 1, Len(@) - 1)]

\* Transaction.__exit__ of the innermost entered transaction; `failed` says
\* whether exc_type is set
TransactionExit(S, failed) ==
    DropTransaction(
        IF failed
        THEN RollbackTransaction(ReplaySnapshots(S), Len(S.txs))
        ELSE CommitTransaction(LeaveTransaction(S), Len(S.txs)))

\* a variant of __exit__ that returns a true value
ExitSuppressesAlways(failed) == TRUE

\* What __exit__ returns: None, so the with statement re-raises.
ExitSuppresses(failed) == FALSE

\* ---- history ---------------------------------------------------------------
Allocated(S) == {o \in Obj : S.objModel[o] # "none"}

\* the instance is initialised and a row with its key is in its table
Live(S, o) ==
    /\ S.objModel[o] # "none"
    /\ S.hasInit[o]
    /\ PrimaryValues(S, o) \in RowKeys(S, S.objModel[o])

NoValues == [o \in Obj |-> None]

EmptyLog ==
    [entryMemory |-> [fid \in FieldIds |-> NoValues],
     entryLive |-> {},
     entryDb |-> [rows |-> [m \in Models |-> <<>>], seq |-> [m \in Models |-> 0]],
     nested |-> FALSE,
     madeBefore |-> {}, madeAfter |-> {}, madeInner |-> {}, undone |-> {},
     assigned |-> {}, assignedInner |-> {}, assignedUndone |-> {},
     lastSet |-> NoValues]

NoEvent == [op |-> "none", depth |-> 0, log |-> EmptyLog, exc |-> "", raised |-> ""]

Top == Len(txLog)

\* q overrides p wherever q holds a value
Over(p, q) == [o \in Obj |-> IF q[o] # None THEN q[o] ELSE p[o]]

LogCreate(o, v) ==
    /\ txLog' = IF Top = 0 THEN txLog
                ELSE IF txLog[Top].nested
                     THEN [txLog EXCEPT ![Top].madeAfter = @ \cup {o},
                                        ![Top].lastSet[o] = v]
                     ELSE [txLog EXCEPT ![Top].madeBefore = @ \cup {o},
                                        ![Top].lastSet[o] = v]
    /\ event' = NoEvent

LogAssign(o, v) ==
    /\ txLog' = IF Top = 0 THEN txLog
                ELSE [txLog EXCEPT ![Top].assigned = @ \cup {o},
                                   ![Top].lastSet[o] = v]
    /\ event' = NoEvent

LogNothing ==
    /\ txLog' = txLog
    /\ event' = NoEvent

LogEnter ==
    /\ txLog' = Append(IF Top = 0 THEN txLog ELSE [txLog EXCEPT ![Top].nested = TRUE],
                       [EmptyLog EXCEPT !.entryMemory = memory,
                                        !.entryLive = {o \in Obj : Live(St, o)},
                                        !.entryDb = db])
    /\ event' = NoEvent

LogCommit ==
    LET c == txLog[Top]
        rest == SubSeq(txLog, 1, Top - 1)
    IN /\ txLog' = IF Top = 1 THEN rest
                   ELSE [rest EXCEPT
                           ![Top - 1].madeInner = @ \cup c.madeBefore \cup c.madeAfter \cup c.madeInner,
                           ![Top - 1].undone = @ \cup c.undone,
                           ![Top - 1].assignedInner = @ \cup c.assigned \cup c.assignedInner,
                           ![Top - 1].assignedUndone = @ \cup c.assignedUndone,
                           ![Top - 1].lastSet = Over(@, c.lastSet)]
       /\ event' = [op |-> "commit", depth |-> Top, log |-> c, exc |-> "", raised |-> ""]

LogRollback(e, raised) ==
    LET c == txLog[Top]
        rest == SubSeq(txLog, 1, Top - 1)
    IN /\ txLog' = IF Top = 1 THEN rest
                   ELSE [rest EXCEPT
                           ![Top - 1].undone = @ \cup c.madeBefore \cup c.madeAfter
                                                 \cup c.madeInner \cup c.undone,
                           ![Top - 1].assignedUndone = @ \cup c.assigned \cup c.assignedInner
                                                         \cup c.assignedUndone]
       /\ event' = [op |-> "rollback", depth |-> Top, log |-> c, exc |-> e,
                    raised |-> raised]

\* ---- operations on the model Car -------------------------------------------
\* Car.create(price=v)
CreateOp(v, limit) ==
    /\ nextObj <= limit
    /\ Install(CreateInstance(St, "Car", <<[name |-> "price", value |-> v]>>))
    /\ created' = created \cup {nextObj}

\* instance.price = v, on an instance the client has not deleted
AssignOp(o, v) ==
    /\ objModel[o] = "Car"
    /\ hasInit[o]
    /\ Install(FieldSet(St, o, "price", v))
    /\ UNCHANGED created

\* instance.delete(), on an instance the client has not deleted yet
DeleteOp(o) ==
    /\ objModel[o] = "Car"
    /\ hasInit[o]
    /\ Install(DeleteInstance(St, o))
    /\ UNCHANGED created

\* Car.get(id=k) has returned r.result; `record` says whether the lookup is
\* kept in the history, `limit` is the number of instances the run may
\* construct
GetDone(r, k, record, limit) ==
    /\ r.state.nextObj <= limit + 1
    /\ Install(r.state)
    /\ lookups' = IF r.result = None \/ ~record THEN lookups
                  ELSE [lookups EXCEPT !["Car"][k] = @ \cup {r.result}]
    /\ UNCHANGED created

\* Car.get(id=k)
GetOp(k, record, limit) == GetDone(GetInstance(St, "Car", k), k, record, limit)

\* list(Car.select(Car.price == v)) has returned r.results
SelectDone(r, record, limit) ==
    /\ r.state.nextObj <= limit + 1
    /\ Install(r.state)
    /\ lookups' = IF ~record THEN lookups
                  ELSE [lookups EXCEPT !["Car"] =
                          [k \in Obj |-> @[k] \cup
                              {r.results[i] : i \in {j \in 1..Len(r.results) :
                                  PrimaryValues(r.state, r.results[j]) = k}}]]
    /\ UNCHANGED created

\* list(Car.select(Car.price == v))
SelectOp(v, record, limit) == SelectDone(QueryExecute(St, "Car", v), record, limit)

\* with db.transaction: (entering the block)
EnterOp ==
    /\ Len(txs) < MaxDepth
    /\ current # None => savepointId < MaxSavepoints
    /\ Install(TransactionEnter(St))
    /\ UNCHANGED created

\* leaving the block, normally or with an exception
ExitOp(failed) ==
    /\ Len(txs) > 0
    /\ Install(TransactionExit(St, failed))
    /\ UNCHANGED created

Create(v) == CreateOp(v, MaxObjects) /\ LogCreate(nextObj, v) /\ UNCHANGED lookups

Assign(o, v) == AssignOp(o, v) /\ LogAssign(o, v) /\ UNCHANGED lookups

Delete(o) == DeleteOp(o) /\ LogNothing /\ UNCHANGED lookups

Get(k) == GetOp(k, FALSE, MaxObjects + 1) /\ LogNothing

Select(v) == SelectOp(v, FALSE, MaxObjects + 1) /\ LogNothing

Enter == EnterOp /\ LogEnter /\ UNCHANGED lookups

ExitCommit == ExitOp(FALSE) /\ LogCommit /\ UNCHANGED lookups

ExitRollback(e) ==
    /\ ExitOp(TRUE)
    /\ LogRollback(e, IF ExitSuppresses(TRUE) THEN "" ELSE e)
    /\ UNCHANGED lookups

Init ==
    /\ memory = [fid \in FieldIds |-> NoValues]
    /\ hasInit = [o \in Obj |-> FALSE]
    /\ objModel = [o \in Obj |-> "none"]
    /\ nextObj = 1
    /\ idMapper = [m \in Models |-> [k \in Keys |-> None]]
    /\ db = [rows |-> [m \in Models |-> <<>>], seq |-> [m \in Models |-> 0]]
    /\ sqlStack = <<>>
    /\ txs = <<>>
    /\ current = None
    /\ savepointId = 0
    /\ queries = <<>>
    /\ obtained = <<>>
    /\ lookups = [m \in Models |-> [k \in Obj |-> {}]]
    /\ created = {}
    /\ txLog = <<>>
    /\ event = NoEvent

Next ==
    \/ \E v \in Values : Create(v)
    \/ \E o \in Obj, v \in Values : Assign(o, v)
    \/ \E o \in Obj : Delete(o)
    \/ \E k \in 1..MaxObjects : Get(k)
    \/ \E v \in Values : Select(v)
    \/ Enter
    \/ ExitCommit
    \/ \E e \in Exceptions : ExitRollback(e)

Spec == Init /\ [][Next]_vars

\* ---- lookups on a database that may hold a row of an earlier run ----------
\* Sqlite3Engine.init opens the file it is given: the car table may already
\* hold a row for which this process has no instance yet.
StoredRows ==
    {[rows |-> [m \in Models |-> <<>>], seq |-> [m \in Models |-> 0]]}
    \cup {[rows |-> [m \in Models |-> IF m = "Car" THEN <<[price |-> MaxValue]>> ELSE <<>>],
           seq |-> [m \in Models |-> IF m = "Car" THEN 1 ELSE 0]]}

InitLookup ==
    /\ memory = [fid \in FieldIds |-> NoValues]
    /\ hasInit = [o \in Obj |-> FALSE]
    /\ objModel = [o \in Obj |-> "none"]
    /\ nextObj = 1
    /\ idMapper = [m \in Models |-> [k \in Keys |-> None]]
    /\ db \in StoredRows
    /\ sqlStack = <<>>
    /\ txs = <<>>
    /\ current = None
    /\ savepointId = 0
    /\ queries = <<>>
    /\ obtained = <<>>
    /\ lookups = [m \in Models |-> [k \in Obj |-> {}]]
    /\ created = {}
    /\ txLog = <<>>
    /\ event = NoEvent

LookupCreate(v) == CreateOp(v, MaxObjects) /\ UNCHANGED <<lookups, txLog, event>>

LookupAssign(o, v) == AssignOp(o, v) /\ UNCHANGED <<lookups, txLog, event>>

LookupDelete(o) == DeleteOp(o) /\ UNCHANGED <<lookups, txLog, event>>

LookupGet(k) == GetOp(k, TRUE, MaxObjects) /\ UNCHANGED <<txLog, event>>

LookupSelect(v) == SelectOp(v, TRUE, MaxObjects) /\ UNCHANGED <<txLog, event>>

LookupEnter == EnterOp /\ UNCHANGED <<lookups, txLog, event>>

LookupExit(failed) == ExitOp(failed) /\ UNCHANGED <<lookups, txLog, event>>

NextLookup ==
    \/ \E v \in Values : LookupCreate(v)
    \/ \E o \in Obj, v \in Values : LookupAssign(o, v)
    \/ \E o \in Obj : LookupDelete(o)
    \/ \E k \in 1..(MaxObjects + 1) : LookupGet(k)
    \/ \E v \in Values : LookupSelect(v)
    \/ LookupEnter
    \/ \E failed \in BOOLEAN : LookupExit(failed)

SpecLookup == InitLookup /\ [][NextLookup]_vars

\* ---- creations and transactions only, with one more instance ---------------
CreateMore(v) == CreateOp(v, MaxObjects + 1) /\ LogCreate(nextObj, v) /\ UNCHANGED lookups

NextCreate ==
    \/ \E v \in Values : CreateMore(v)
    \/ \E k \in 1..(MaxObjects + 1) : Get(k)
    \/ Enter
    \/ ExitCommit
    \/ \E e \in Exceptions : ExitRollback(e)

SpecCreate == Init /\ [][NextCreate]_vars

\* ---- the one-to-one relation of Book and Author -----------------------------
Authors == {o \in Obj : objModel[o] = "Author"}
Books == {o \in Obj : objModel[o] = "Book"}

\* history of a relationship assignment `obj.field = value`: the partner
\* obj had before it and the partner value had before it
LinkEvent(o, f, mirrorField, value, before) ==
    [op |-> "link", obj |-> o, field |-> f, mirror |-> mirrorField,
     value |-> value,
     existing |-> St.objModel[o] # "none",
     oldMirror |-> before,
     oldValue |-> IF value = None THEN None
                  ELSE GetAttr(St, value, mirrorField)]

LogLink(o, f, mirrorField, value, before) ==
    /\ event' = LinkEvent(o, f, mirrorField, value, before)
    /\ UNCHANGED <<lookups, txLog>>

\* Author.create(name=n, book=b); book defaults to None
CreateAuthor(n, b) ==
    /\ Cardinality(Authors) < MaxObjects
    /\ Install(CreateInstance(St, "Author", <<[name |-> "name", value |-> n],
                                              [name |-> "book", value |-> b]>>))
    /\ created' = created \cup {nextObj}
    /\ LogLink(nextObj, "book", "author", b, None)

\* Book.create(title=t, author=a)
CreateBook(t, a) ==
    /\ Cardinality(Books) < MaxObjects
    /\ Install(CreateInstance(St, "Book", <<[name |-> "title", value |-> t],
                                            [name |-> "author", value |-> a]>>))
    /\ created' = created \cup {nextObj}
    /\ LogLink(nextObj, "author", "book", a, None)

\* book.author = a
AssignAuthorOp(b, a) ==
    /\ Install(SetAttr(St, b, "author", a))
    /\ UNCHANGED created

AssignAuthor(b, a) ==
    AssignAuthorOp(b, a) /\ LogLink(b, "author", "book", a, GetAttr(St, b, "author"))

\* author.book = b
AssignBookOp(a, b) ==
    /\ Install(SetAttr(St, a, "book", b))
    /\ UNCHANGED created

AssignBook(a, b) ==
    AssignBookOp(a, b) /\ LogLink(a, "book", "author", b, GetAttr(St, a, "book"))

NextRel ==
    \/ \E n \in Values, b \in Books \cup {None} : CreateAuthor(n, b)
    \/ \E t \in Values, a \in Authors : CreateBook(t, a)
    \/ \E b \in Books, a \in Authors \cup {None} : AssignAuthor(b, a)
    \/ \E a \in Authors, b \in Books \cup {None} : AssignBook(a, b)

SpecRel == Init /\ [][NextRel]_vars

\* ---- the relation inside transactions ----------------------------------------
\* the partner every instance shows through its relationship attribute
RelLinks(S) ==
    [o \in Obj |->
        IF S.objModel[o] = "Book" THEN GetAttr(S, o, "author")
        ELSE IF S.objModel[o] = "Author" THEN GetAttr(S, o, "book")
        ELSE None]

\* the number of assignments a transaction of these runs holds
MaxSteps == 3

\* with db.transaction: the links at entry are remembered
RelEnter ==
    /\ txs = <<>>
    /\ EnterOp
    /\ txLog' = Append(txLog, [links |-> RelLinks(St), allocated |-> Allocated(St),
                               steps |-> 0])
    /\ event' = [op |-> "enter"]
    /\ UNCHANGED lookups

\* an assignment inside the transaction is counted
RelStep(e) ==
    /\ current # None
    /\ txLog[Top].steps < MaxSteps
    /\ txLog' = [txLog EXCEPT ![Top].steps = @ + 1]
    /\ event' = e
    /\ UNCHANGED lookups

\* book.author = a inside the transaction
RelAssignAuthor(b, a) ==
    AssignAuthorOp(b, a) /\ RelStep(LinkEvent(b, "author", "book", a, GetAttr(St, b, "author")))

\* author.book = b inside the transaction
RelAssignBook(a, b) ==
    AssignBookOp(a, b) /\ RelStep(LinkEvent(a, "book", "author", b, GetAttr(St, a, "book")))

\* the block ends normally
RelCommit ==
    /\ ExitOp(FALSE)
    /\ txLog' = SubSeq(txLog, 1, Top - 1)
    /\ event' = [op |-> "commit"]
    /\ UNCHANGED lookups

\* the block ends with an exception; the history keeps what the replay of the
\* snapshots did to the storage and to the transactions' records before the
\* engine rolled back
RelRollback ==
    /\ ExitOp(TRUE)
    /\ txLog' = SubSeq(txLog, 1, Top - 1)
    /\ event' = [op |-> "rollback", entry |-> txLog[Top],
                 replayed |-> Len(txs[Len(txs)].objects),
                 wrote |-> ReplaySnapshots(St).db # db,
                 recorded |-> ReplaySnapshots(St).txs # txs]
    /\ UNCHANGED lookups

\* a run creates the instances, then holds one transaction in which the
\* links are reassigned, and ends with it
RelOpen == event.op \notin {"commit", "rollback"}

NextRelTx ==
    \/ RelOpen /\ current = None /\ \E b \in Books \cup {None} : CreateAuthor(MaxValue, b)
    \/ RelOpen /\ current = None /\ \E a \in Authors : CreateBook(MaxValue, a)
    \/ \E b \in Books, a \in Authors \cup {None} : RelAssignAuthor(b, a)
    \/ \E a \in Authors, b \in Books \cup {None} : RelAssignBook(a, b)
    \/ RelOpen /\ RelEnter
    \/ RelCommit
    \/ RelRollback

SpecRelTx == Init /\ [][NextRelTx]_vars

\* ---- nested transactions and the calls they make to the engine ---------------
\* the depth of nesting and the number of savepoints of these runs
MaxNesting == 3
MaxSavepointIds == 3

\* the calls Transaction.__enter__ makes to the engine
EnterCalls(S) == <<BeginStatement(NewTransaction(S), Len(S.txs) + 1)>>

\* the calls Transaction.__exit__ makes to the engine
ExitCalls(S, failed) ==
    IF failed
    THEN <<RollbackStatement(ReplaySnapshots(S), Len(S.txs))>>
    ELSE <<CommitStatement(LeaveTransaction(S), Len(S.txs))>>

\* the numbers of the savepoints the engine has named so far
Handed == IF "handed" \in DOMAIN event THEN event.handed ELSE <<>>

\* the savepoint numbers among some calls
SavepointsIn(calls) ==
    IF calls[1].sql = "SAVEPOINT" THEN <<calls[1].id>> ELSE <<>>

\* with db.transaction: (entering the block)
TxEnter ==
    /\ Len(txs) < MaxNesting
    /\ current # None => savepointId < MaxSavepointIds
    /\ Install(TransactionEnter(St))
    /\ txLog' = Append(txLog, [tx |-> Len(txs) + 1, parent |-> current,
                               calls |-> EnterCalls(St)])
    /\ event' = [op |-> "enter", tx |-> Len(txs) + 1, parent |-> current,
                 calls |-> EnterCalls(St),
                 handed |-> Handed \o SavepointsIn(EnterCalls(St))]
    /\ UNCHANGED <<created, lookups>>

\* leaving the block, normally or with an exception
TxExit(failed) ==
    /\ ExitOp(failed)
    /\ txLog' = SubSeq(txLog, 1, Top - 1)
    /\ event' = [op |-> "exit", failed |-> failed, tx |-> Len(txs),
                 entry |-> txLog[Top], calls |-> ExitCalls(St, failed),
                 handed |-> Handed]
    /\ UNCHANGED lookups

\* Car.create(price=v) between the entries and the exits
TxCreate(v) ==
    /\ CreateOp(v, MaxObjects)
    /\ event' = [op |-> "create", handed |-> Handed]
    /\ UNCHANGED <<lookups, txLog>>

\* car.price = v between the entries and the exits
TxAssign(o, v) ==
    /\ AssignOp(o, v)
    /\ event' = [op |-> "assign", handed |-> Handed]
    /\ UNCHANGED <<lookups, txLog>>

NextTx ==
    \/ TxEnter
    \/ \E failed \in BOOLEAN : TxExit(failed)
    \/ TxCreate(MaxValue)
    \/ \E o \in Obj : TxAssign(o, 1)

SpecTx == Init /\ [][NextTx]_vars

\* ---- deletions inside transactions -------------------------------------------
\* what is remembered of an entered transaction: the instances live at entry
\* and their prices, the instances deleted in it and in the committed
\* transactions nested in it, and the price each had when it was deleted
DelEntry ==
    [entryLive |-> {o \in Obj : Live(St, o)},
     entryPrice |-> memory[<<"Car", "price">>],
     deleted |-> {}, deletedInner |-> {},
     preDelete |-> NoValues]

DelQuiet == event' = [op |-> "none"] /\ UNCHANGED <<lookups, txLog>>

\* Car.create(price=v)
DelCreate(v) == CreateOp(v, MaxObjects) /\ DelQuiet

\* car.price = v
DelAssign(o, v) == AssignOp(o, v) /\ DelQuiet

\* car.delete()
DelDelete(o) ==
    /\ DeleteOp(o)
    /\ txLog' = IF Top = 0 THEN txLog
                ELSE [txLog EXCEPT ![Top].deleted = @ \cup {o},
                                   ![Top].preDelete[o] = memory[<<"Car", "price">>][o]]
    /\ event' = [op |-> "none"]
    /\ UNCHANGED lookups

\* with db.transaction: (entering the block)
DelEnter ==
    /\ EnterOp
    /\ txLog' = Append(txLog, DelEntry)
    /\ event' = [op |-> "none"]
    /\ UNCHANGED lookups

\* the block ends normally
DelCommit ==
    /\ ExitOp(FALSE)
    /\ txLog' = IF Top = 1 THEN <<>>
                ELSE [SubSeq(txLog, 1, Top - 1) EXCEPT
                        ![Top - 1].deletedInner =
                            @ \cup txLog[Top].deleted \cup txLog[Top].deletedInner,
                        ![Top - 1].preDelete = Over(@, txLog[Top].preDelete)]
    /\ event' = [op |-> "commit"]
    /\ UNCHANGED lookups

\* the block ends with an exception
DelRollback ==
    /\ ExitOp(TRUE)
    /\ txLog' = SubSeq(txLog, 1, Top - 1)
    /\ event' = [op |-> "rollback", log |-> txLog[Top]]
    /\ UNCHANGED lookups

NextDel ==
    \/ \E v \in Values : DelCreate(v)
    \/ \E o \in Obj, v \in Values : DelAssign(o, v)
    \/ \E o \in Obj : DelDelete(o)
    \/ DelEnter
    \/ DelCommit
    \/ DelRollback

SpecDel == Init /\ [][NextDel]_vars

\* ---- transaction objects obtained before they are entered --------------------
\* the number of Transaction objects a run keeps for later
MaxObtained == 2

\* a run ends when an entry has raised
ObtOpen == ~(event.op = "enter" /\ event.raised # "")

\* t = db.transaction, outside every scope
Obtain ==
    /\ ObtOpen
    /\ current = None
    /\ Len(obtained) < MaxObtained
    /\ Install(DatabaseTransaction(St))
    /\ event' = [op |-> "obtain"]
    /\ UNCHANGED <<created, lookups, txLog>>

\* __enter__ has run: the history keeps the parent of the entered
\* transaction, the transaction that was current, and the statement
EnterDone(r, parent) ==
    /\ Install(r.state)
    /\ event' = [op |-> "enter", parent |-> parent, currentBefore |-> current,
                 statement |-> BeginStatement(r.state, Len(txs) + 1).sql,
                 raised |-> r.raised]
    /\ UNCHANGED <<created, lookups, txLog>>

\* with t: for the i-th object obtained earlier
ObtEnter(i) ==
    /\ ObtOpen
    /\ Len(txs) < MaxDepth
    /\ EnterDone(EnterObtained(St, i), obtained[i].parent)

\* with db.transaction:
ObtScope ==
    /\ ObtOpen
    /\ Len(txs) < MaxDepth
    /\ current # None => savepointId < MaxSavepoints
    /\ EnterDone([state |-> TransactionEnter(St), raised |-> ""], current)

\* leaving the innermost block
ObtExit(failed) ==
    /\ ObtOpen
    /\ ExitOp(failed)
    /\ event' = [op |-> "exit"]
    /\ UNCHANGED <<lookups, txLog>>

\* Car.create(price=v) between the entries and the exits
ObtCreate(v) ==
    /\ ObtOpen
    /\ CreateOp(v, MaxObjects)
    /\ event' = [op |-> "create"]
    /\ UNCHANGED <<lookups, txLog>>

NextObtain ==
    \/ Obtain
    \/ \E i \in 1..Len(obtained) : ObtEnter(i)
    \/ ObtScope
    \/ \E failed \in BOOLEAN : ObtExit(failed)
    \/ \E v \in Values : ObtCreate(v)

SpecObtain == Init /\ [][NextObtain]_vars

\* ---- get filtered by a relationship field -----------------------------------
\* the columns of a table as filters: column name -> [table, value]
OfTable(m, columns) ==
    [c \in DOMAIN columns |-> [table |-> m, value |-> columns[c]]]

\* prepare_columns({f: v}, search_outside=True) of the table of m: the
\* table's own answer, then the answer of the mirror field's table for
\* {mirror: v}.  The field stays in `fields` in both cases (no column is named
\* after it), so the second step always runs.
PrepareOutside(S, m, f, v) ==
    OfTable(m, PrepareColumns(S, m, (f :> v)))
        @@ OfTable(Mirror(m, f)[1],
                   PrepareColumns(S, Mirror(m, f)[1], (Mirror(m, f)[2] :> v)))

\* one filter of get_row on the row k of table m: `table.column = ?`, and for
\* a column of another table `INNER JOIN table ON table.column = m.id`
FilterHolds(S, m, k, c, flt) ==
    IF flt.table = m
    THEN S.db.rows[m][k][c] = flt.value
    ELSE \E j \in RowKeys(S, flt.table) :
             /\ S.db.rows[flt.table][j][c] = k
             /\ S.db.rows[flt.table][j][c] = flt.value

\* the rows the SELECT of get_row fetches
MatchingRows(S, m, filters) ==
    {k \in RowKeys(S, m) : \A c \in DOMAIN filters : FilterHolds(S, m, k, c, filters[c])}

\* get_row: None without a row, rows[0] otherwise
GetRowWhere(S, m, filters) ==
    IF MatchingRows(S, m, filters) = {}
    THEN None
    ELSE FirstKey(MatchingRows(S, m, filters))

\* the end of get_instance for the row get_row returned
MaterializeRow(S, m, k) ==
    IF k = None THEN [state |-> S, result |-> None] ELSE Materialize(S, m, k)

\* Database.get_instance(model, {f: v}) for a relationship field f
GetInstanceBy(S, m, f, v) ==
    MaterializeRow(S, m, GetRowWhere(S, m, PrepareOutside(S, m, f, v)))

\* M.get(f=v) has returned r.result
GetByDone(r, m, f, v) ==
    /\ r.state.nextObj <= 2 * MaxObjects + 1
    /\ Install(r.state)
    /\ event' = [op |-> "getby", model |-> m, field |-> f, value |-> v,
                 result |-> r.result]
    /\ UNCHANGED <<lookups, created, txLog>>

\* Book.get(author=a)
GetByAuthor(a) == GetByDone(GetInstanceBy(St, "Book", "author", a), "Book", "author", a)

\* Author.get(book=b)
GetByBook(b) == GetByDone(GetInstanceBy(St, "Author", "book", b), "Author", "book", b)

NextRelGet ==
    \/ \E n \in Values, b \in Books \cup {None} : CreateAuthor(n, b)
    \/ \E t \in Values, a \in Authors : CreateBook(t, a)
    \/ \E b \in Books, a \in Authors \cup {None} : AssignAuthor(b, a)
    \/ \E a \in Authors, b \in Books \cup {None} : AssignBook(a, b)
    \/ \E a \in Authors : GetByAuthor(a)
    \/ \E b \in Books : GetByBook(b)

SpecRelGet == Init /\ [][NextRelGet]_vars

\* ---- get filtered by a field that is not the key ----------------------------
\* prepare_columns({f: v}, search_outside=True) for a scalar field: the column
\* of its name takes the value and the field leaves `fields`
PrepareScalar(S, m, f, v) == OfTable(m, PrepareColumns(S, m, (f :> v)))

\* Car.get(price=v)
GetByPrice(v) ==
    GetByDone(MaterializeRow(St, "Car", GetRowWhere(St, "Car", PrepareScalar(St, "Car", "price", v))),
              "Car", "price", v)

FilterCreate(v) == CreateOp(v, MaxObjects + 1) /\ UNCHANGED <<lookups, txLog>> /\ event' = NoEvent

FilterAssign(o, v) == AssignOp(o, v) /\ UNCHANGED <<lookups, txLog>> /\ event' = NoEvent

FilterDelete(o) == DeleteOp(o) /\ UNCHANGED <<lookups, txLog>> /\ event' = NoEvent

NextFilter ==
    \/ \E v \in Values : FilterCreate(v)
    \/ \E o \in Obj, v \in Values : FilterAssign(o, v)
    \/ \E o \in Obj : FilterDelete(o)
    \/ \E v \in Values : GetByPrice(v)

SpecFilter == Init /\ [][NextFilter]_vars

\* ---- Query objects (query/query.py) ------------------------------------------
MaxQueries == 2
MaxCalls == 2

\* Query.__init__: `self.results = None`.  `results` is meaningful when
\* hasResults holds; `calls` counts the select_rows calls made for the object
\* (history).
NewQueryObject(v) == [value |-> v, hasResults |-> FALSE, results |-> <<>>, calls |-> 0]

\* Database.select(model, query, filters): the query gets its model and is
\* returned
DatabaseSelect(S, v) == [S EXCEPT !.queries = Append(@, NewQueryObject(v))]

\* Query.execute after select_rows and the loop over the rows:
\* `self.results = results`
QueryStore(r, q) ==
    [state |-> [r.state EXCEPT !.queries[q].hasResults = TRUE,
                               !.queries[q].results = r.results,
                               !.queries[q].calls = @ + 1],
     results |-> r.results]

QueryCached(S, q) == [state |-> S, results |-> S.queries[q].results]

\* a variant of Query.execute that tests `if self.results:`
QueryObjectExecuteIfTrue(S, q) ==
    IF S.queries[q].hasResults /\ S.queries[q].results # <<>>
    THEN QueryCached(S, q)
    ELSE QueryStore(QueryExecute(S, "Car", S.queries[q].value), q)

\* Query.execute: `if self.results is not None: return self.results`
QueryObjectExecute(S, q) ==
    IF S.queries[q].hasResults
    THEN QueryCached(S, q)
    ELSE QueryStore(QueryExecute(S, "Car", S.queries[q].value), q)

\* query = Car.select(Car.price == v)
NewQuery(v) ==
    /\ Len(queries) < MaxQueries
    /\ Install(DatabaseSelect(St, v))
    /\ event' = NoEvent
    /\ UNCHANGED <<lookups, created, txLog>>

\* list(query) has returned r.results
IterateDone(r, q) ==
    /\ r.state.nextObj <= MaxObjects + 2
    /\ Install(r.state)
    /\ event' = [op |-> "iterate", query |-> q, returned |-> r.results,
                 before |-> queries[q], rowsBefore |-> db.rows["Car"]]
    /\ UNCHANGED <<lookups, created, txLog>>

\* list(query): Query.__iter__
Iterate(q) ==
    /\ q \in 1..Len(queries)
    /\ queries[q].calls < MaxCalls
    /\ IterateDone(QueryObjectExecute(St, q), q)

QueryCreate(v) == CreateOp(v, MaxObjects) /\ UNCHANGED <<lookups, txLog>> /\ event' = NoEvent

NextQuery ==
    \/ \E v \in Values : NewQuery(v)
    \/ \E q \in 1..MaxQueries : Iterate(q)
    \/ \E v \in Values : QueryCreate(v)
    \/ \E o \in Obj, v \in Values : FilterAssign(o, v)
    \/ \E o \in Obj : FilterDelete(o)

SpecQuery == Init /\ [][NextQuery]_vars

\* ---- select with .lower() (query/query.py, engine/sqlite/operators.py) -------
MaxLen == 2

\* the characters of the stored strings: a letter and its capital in ASCII,
\* a letter and its capital outside ASCII (e with acute accent).  A character
\* is its position here; capitals are at the even positions.
Alphabet == <<"a", "A", "e-acute", "E-acute">>
CharCodes == DOMAIN Alphabet
IsUpper(c) == c % 2 = 0
IsAscii(c) == c <= 2
Letter(c) == (c + 1) \div 2

\* a str value is stored as the number whose digits, lowest first, are its
\* characters
Radix == Len(Alphabet) + 1

RECURSIVE Encode(_)
Encode(s) == IF s = <<>> THEN 0 ELSE Head(s) + Radix * Encode(Tail(s))

RECURSIVE Decode(_)
Decode(n) == IF n = 0 THEN <<>> ELSE <<n % Radix>> \o Decode(n \div Radix)

Strings == UNION {[1..n -> CharCodes] : n \in 1..MaxLen}
Texts == {Encode(s) : s \in Strings}

\* str.lower, character by character
StrLowerChar(c) == IF IsUpper(c) THEN c - 1 ELSE c

\* the LOWER of SQLite, which changes ASCII capitals only
SqliteLowerChar(c) == IF IsUpper(c) /\ IsAscii(c) THEN c - 1 ELSE c

\* the function created as "pylower" by Sqlite3Engine.init: str.lower
PyLower(n) == Encode([i \in DOMAIN Decode(n) |-> StrLowerChar(Decode(n)[i])])

\* LOWER(X) of SQLite
SqliteLower(n) == Encode([i \in DOMAIN Decode(n) |-> SqliteLowerChar(Decode(n)[i])])

\* a variant of OPERATIONS with Function.LOWER: "LOWER"
SqlLowerBuiltin(n) == SqliteLower(n)

\* OPERATIONS[Function.LOWER] = "PYLOWER", applied to a column value
SqlLower(n) == PyLower(n)

\* select_rows for the query `field.lower() == v`: PYLOWER(name)=?
SelectRowsLower(S, m, v) ==
    {k \in RowKeys(S, m) : SqlLower(S.db.rows[m][k][FieldNames(m)[2]]) = v}

\* Query.execute of the query `Author.name.lower() == v`
QueryExecuteLower(S, m, v) == ExecuteRows(S, m, SelectRowsLower(S, m, v), <<>>)

\* Author.create(name=t), book keeps its default
LowerCreate(t) ==
    /\ Cardinality(Authors) < MaxObjects
    /\ Install(CreateInstance(St, "Author", <<[name |-> "name", value |-> t],
                                              [name |-> "book", value |-> None]>>))
    /\ created' = created \cup {nextObj}
    /\ event' = NoEvent
    /\ UNCHANGED <<lookups, txLog>>

\* list(Author.select(Author.name.lower() == v)) has returned r.results
LowerSelectDone(r, v) ==
    /\ r.state.nextObj <= 2 * MaxObjects + 1
    /\ Install(r.state)
    /\ event' = [op |-> "selectlower", value |-> v, results |-> r.results]
    /\ UNCHANGED <<lookups, created, txLog>>

LowerSelect(v) == LowerSelectDone(QueryExecuteLower(St, "Author", v), v)

NextLower ==
    \/ \E t \in Texts : LowerCreate(t)
    \/ \E v \in Texts : LowerSelect(v)

SpecLower == Init /\ [][NextLower]_vars

\* ---- ModelSchema.bind (schema/schema.py) ------------------------------------
\* the default a field declares (Author.book = None)
DefaultOf(m, f) == None

\* the fields of a model's schema, in field order
SchemaOf(m) ==
    [i \in 1..Len(FieldNames(m)) |->
        [name |-> FieldNames(m)[i],
         has_default |-> HasDefault(m, FieldNames(m)[i]),
         default |-> DefaultOf(m, FieldNames(m)[i]),
         set_by_database |-> SetByDatabase(m, FieldNames(m)[i])]]

Bound(fields) == [raised |-> "", fields |-> fields]
Raised(exception) == [raised |-> exception, fields |-> <<>>]

\* the loop `for field in self.fields.values()` of bind: kwargs is a function
\* name -> value, a name outside its domain is _NOT_SET
RECURSIVE BindFields(_, _, _, _)
BindField(field, rest, kwargs, full, bound) ==
    IF field.name \notin DOMAIN kwargs
    THEN IF ~full
         THEN BindFields(rest, kwargs, full, bound)
         ELSE IF field.has_default
              THEN BindFields(rest, kwargs, full,
                              Append(bound, [name |-> field.name, value |-> field.default]))
              ELSE IF field.set_by_database
                   THEN BindFields(rest, kwargs, full, bound)
                   ELSE Raised("MissingArgument")
    ELSE IF full /\ field.set_by_database
         THEN Raised("ForbiddenArgument")
         ELSE BindFields(rest, kwargs, full,
                         Append(bound, [name |-> field.name, value |-> kwargs[field.name]]))

BindFields(schema, kwargs, full, bound) ==
    IF schema = <<>>
    THEN Bound(bound)
    ELSE BindField(Head(schema), Tail(schema), kwargs, full, bound)

\* ModelSchema.bind(args, kwargs, full).  With a positional argument the
\* first loop starts with `field = None` and evaluates `field.has_default`:
\* AttributeError.
Bind(schema, args, kwargs, full) ==
    IF args # <<>>
    THEN Raised("AttributeError")
    ELSE BindFields(schema, kwargs, full, <<>>)

\* the keyword arguments a call may carry: every function from a set of
\* field names to values
KwargsOver(names) == UNION {[d -> Values] : d \in SUBSET names}

\* ---- MetaModel.get_fields (schema/model.py) ----------------------------------
MaxFields == 2

\* a field as the class body declares it
Declared ==
    [name : {"id", "key", "name"}, field_type : {"int", "str"},
     primary_key : BOOLEAN, has_default : BOOLEAN]

\* the class bodies: up to MaxFields fields of different names
Declarations ==
    {d \in UNION {[1..n -> Declared] : n \in 0..MaxFields} :
        \A i, j \in DOMAIN d : d[i].name = d[j].name => i = j}

\* Field(int, primary_key=True, name="id")
PrimaryKeyField ==
    [name |-> "id", field_type |-> "int", primary_key |-> TRUE, has_default |-> FALSE]

HasPrimary(fields) == \E i \in DOMAIN fields : fields[i].primary_key

Resolved(fields) == [raised |-> "", fields |-> fields]

\* a variant of get_fields that adds the key after the declared fields
GetFieldsKeyLast(fields) ==
    IF ~HasPrimary(fields)
    THEN IF \E i \in DOMAIN fields : fields[i].name = "id"
         THEN Raised("ValueError")
         ELSE Resolved(Append(fields, PrimaryKeyField))
    ELSE Resolved(fields)

\* get_fields from `If there is no PrimaryKey field, add one`; the elif tests
\* for fewer than one primary key where the first test found one
GetFields(fields) ==
    IF ~HasPrimary(fields)
    THEN IF \E i \in DOMAIN fields : fields[i].name = "id"
         THEN Raised("ValueError")
         ELSE Resolved(<<PrimaryKeyField>> \o fields)
    ELSE IF Cardinality({i \in DOMAIN fields : fields[i].primary_key}) < 1
         THEN Raised("ValueError")
         ELSE Resolved(fields)

\* the fields as bind reads them: Field.has_default, Field.set_by_database
AsSchema(fields) ==
    [i \in DOMAIN fields |->
        [name |-> fields[i].name,
         has_default |-> fields[i].has_default,
         default |-> None,
         set_by_database |-> fields[i].field_type = "int" /\ fields[i].primary_key]]

NamesOf(fields) == {fields[i].name : i \in DOMAIN fields}

\* a model class is defined with the body d
SchemaInit ==
    /\ memory = [fid \in FieldIds |-> NoValues]
    /\ hasInit = [o \in Obj |-> FALSE]
    /\ objModel = [o \in Obj |-> "none"]
    /\ nextObj = 1
    /\ idMapper = [m \in Models |-> [k \in Keys |-> None]]
    /\ db = [rows |-> [m \in Models |-> <<>>], seq |-> [m \in Models |-> 0]]
    /\ sqlStack = <<>>
    /\ txs = <<>>
    /\ current = None
    /\ savepointId = 0
    /\ queries = <<>>
    /\ obtained = <<>>
    /\ lookups = [m \in Models |-> [k \in Obj |-> {}]]
    /\ created = {}
    /\ txLog = <<>>
    /\ event \in {[op |-> "declared", declared |-> d] : d \in Declarations}

\* MetaModel.__new__ resolves the fields of the class
Resolve ==
    /\ event.op = "declared"
    /\ event' = [op |-> "resolved", declared |-> event.declared,
                 result |-> GetFields(event.declared)]
    /\ UNCHANGED <<memory, hasInit, objModel, nextObj, idMapper, db, sqlStack,
                   txs, current, savepointId, queries, obtained, lookups, created,
                   txLog>>

\* the schema of the resolved class binds the arguments of a call:
\* M.create binds with full=True, M.get with full=False
BindCall(args, kwargs, full) ==
    /\ event.op \in {"resolved", "bound"}
    /\ event.result.raised = ""
    /\ DOMAIN kwargs \subseteq NamesOf(event.result.fields)
    /\ event' = [op |-> "bound", declared |-> event.declared, result |-> event.result,
                 args |-> args, kwargs |-> kwargs, full |-> full,
                 bound |-> Bind(AsSchema(event.result.fields), args, kwargs, full)]
    /\ UNCHANGED <<memory, hasInit, objModel, nextObj, idMapper, db, sqlStack,
                   txs, current, savepointId, queries, obtained, lookups, created,
                   txLog>>

NextSchema ==
    \/ Resolve
    \/ \E args \in {<<>>, <<MaxValue>>}, kwargs \in KwargsOver({"id", "key", "name"}),
          full \in BOOLEAN : BindCall(args, kwargs, full)

SpecSchema == SchemaInit /\ [][NextSchema]_vars

\* ---- MetaModel.complete_fields and Database.bind ------------------------------
MaxRelations == 2

\* the classes bound together, in the order of the `models` argument
BoundModels == <<"A", "B">>
ModelNames == {BoundModels[i] : i \in DOMAIN BoundModels}

\* the type of a declared field: a scalar type or one of the bound classes
FieldTypes == {"int"} \cup ModelNames

\* the class bodies: up to MaxRelations fields each (the synthesized key, a
\* scalar field like any other, is left out)
ClassBodies == [ModelNames -> UNION {[1..n -> FieldTypes] : n \in 0..MaxRelations}]

\* Field objects are numbered; mirror = 0 is `mirror = None`
FieldObject(m, i, ty) == [model |-> m, name |-> i, field_type |-> ty, mirror |-> 0]

\* get_fields and load_schema of every class (first loop of Database.bind):
\* the Field objects of A, then those of B, and each schema's `fields`
FirstId(bodies, m) == IF m = "A" THEN 0 ELSE Len(bodies["A"])

LoadSchemas(bodies) ==
    [raised |-> "",
     heap |-> [k \in 1..(Len(bodies["A"]) + Len(bodies["B"])) |->
                  IF k <= Len(bodies["A"])
                  THEN FieldObject("A", k, bodies["A"][k])
                  ELSE FieldObject("B", k - Len(bodies["A"]), bodies["B"][k - Len(bodies["A"])])],
     schema |-> [m \in ModelNames |-> [i \in DOMAIN bodies[m] |-> FirstId(bodies, m) + i]]]

\* the positions in field.field_type._schema.fields whose field points to
\* field.model
Opposites(H, f) ==
    {j \in DOMAIN H.schema[f.field_type] :
        H.heap[H.schema[f.field_type][j]].field_type = f.model}

\* HasOne(field): a new Field object with the name, type and mirror of `field`
HasOneOf(H, id) == [H.heap[id] EXCEPT !.mirror = H.heap[id].mirror]

\* the body of complete_fields once the opposite field was found at
\* position j: both are wrapped, made each other's mirror and stored in the
\* two schemas, the field first
Wrap(H, m, i, f, j) ==
    [H EXCEPT
        !.heap = Append(Append(H.heap, [HasOneOf(H, H.schema[m][i]) EXCEPT !.mirror = Len(H.heap) + 2]),
                        [HasOneOf(H, H.schema[f.field_type][j]) EXCEPT !.mirror = Len(H.heap) + 1]),
        !.schema = [[H.schema EXCEPT ![m][i] = Len(H.heap) + 1]
                       EXCEPT ![f.field_type][j] = Len(H.heap) + 2]]

\* a variant of the loop's turn without `if field.mirror: continue`
CompleteFieldAgain(H, m, i, f) ==
    IF H.raised # "" \/ f.field_type \notin ModelNames
    THEN H
    ELSE IF Opposites(H, f) = {}
         THEN [H EXCEPT !.raised = "ValueError"]
         ELSE Wrap(H, m, i, f, FirstKey(Opposites(H, f)))

\* one turn of the loop of complete_fields, for the field f at position i
CompleteField(H, m, i, f) ==
    IF H.raised # "" \/ f.mirror # 0 \/ f.field_type \notin ModelNames
    THEN H
    ELSE IF Opposites(H, f) = {}
         THEN [H EXCEPT !.raised = "ValueError"]
         ELSE Wrap(H, m, i, f, FirstKey(Opposites(H, f)))

\* complete_fields(model): the loop over model._schema.fields.items(), which
\* sees the fields the earlier turns have stored
RECURSIVE CompleteFrom(_, _, _)
CompleteFrom(H, m, i) ==
    IF i > Len(H.schema[m])
    THEN H
    ELSE CompleteFrom(CompleteField(H, m, i, H.heap[H.schema[m][i]]), m, i + 1)

\* Database.bind(models), up to the generation of the tables
DatabaseBind(bodies) ==
    CompleteFrom(CompleteFrom(LoadSchemas(bodies), BoundModels[1], 1), BoundModels[2], 1)

MirrorInit ==
    /\ memory = [fid \in FieldIds |-> NoValues]
    /\ hasInit = [o \in Obj |-> FALSE]
    /\ objModel = [o \in Obj |-> "none"]
    /\ nextObj = 1
    /\ idMapper = [m \in Models |-> [k \in Keys |-> None]]
    /\ db = [rows |-> [m \in Models |-> <<>>], seq |-> [m \in Models |-> 0]]
    /\ sqlStack = <<>>
    /\ txs = <<>>
    /\ current = None
    /\ savepointId = 0
    /\ queries = <<>>
    /\ obtained = <<>>
    /\ lookups = [m \in Models |-> [k \in Obj |-> {}]]
    /\ created = {}
    /\ txLog = <<>>
    /\ event \in {[op |-> "classes", bodies |-> b] : b \in ClassBodies}

\* db.bind((A, B))
BindModels ==
    /\ event.op = "classes"
    /\ event' = [op |-> "bind", bodies |-> event.bodies, result |-> DatabaseBind(event.bodies)]
    /\ UNCHANGED <<memory, hasInit, objModel, nextObj, idMapper, db, sqlStack,
                   txs, current, savepointId, queries, obtained, lookups, created,
                   txLog>>

NextMirror == BindModels

SpecMirror == MirrorInit /\ [][NextMirror]_vars

\* ---- complete_fields called again after bind ----------------------------------
\* m.complete_fields(m), once db.bind((A, B)) has returned
CompleteAgain(m) ==
    /\ event.op \in {"bind", "again"}
    /\ event.result.raised = ""
    /\ event' = [op |-> "again", bodies |-> event.bodies, model |-> m,
                 before |-> event.result,
                 result |-> CompleteFrom(event.result, m, 1)]
    /\ UNCHANGED <<memory, hasInit, objModel, nextObj, idMapper, db, sqlStack,
                   txs, current, savepointId, queries, obtained, lookups, created,
                   txLog>>

NextAgain ==
    \/ BindModels
    \/ \E m \in ModelNames : CompleteAgain(m)

SpecAgain == MirrorInit /\ [][NextAgain]_vars

\* ---- GenericTable.create_from_model (engine/generic/table.py) -----------------
\* which fields of the class bodies are declared with a default value
ClassDefaults == [ModelNames -> UNION {[1..n -> BOOLEAN] : n \in 0..MaxRelations}]

\* Field.has_default: HasOne(field) keeps the model, the name and the default
\* of the field it wraps
FieldHasDefault(D, f) == D[f.model][f.name]

\* the positions in the opposed model's schema of the fields whose type is
\* the model of this table
OpposedFields(H, m, f) ==
    {j \in DOMAIN H.schema[f.field_type] :
        H.heap[H.schema[f.field_type][j]].field_type = m}

\* column names: the name of a scalar field, or `{to_model}_id`
ScalarName(f) == [to |-> "none", field |-> f.name]
OneToOneName(f) == [to |-> f.field_type, field |-> 0]

\* `self.columns[column.name] = column`
AddColumn(T, name, column) ==
    [T EXCEPT !.columns = [n \in DOMAIN T.columns \cup {name} |->
                              IF n = name THEN column ELSE T.columns[n]]]

\* OneToOneColumn(self, self.model, field.field_type, field, back, pk)
OneToOneColumn(m, f, id, back) ==
    [kind |-> "one2one", from_model |-> m, to_model |-> f.field_type,
     from_field |-> id, to_field |-> back]

\* col_type(field, self) for a scalar field
ScalarColumn(m, id) ==
    [kind |-> "scalar", from_model |-> m, to_model |-> "none",
     from_field |-> id, to_field |-> 0]

\* `if back.field_type is self.model and back.has_default`: the table gets a
\* column for the primary key of the opposed model
OneToOneIfDefault(H, D, T, m, f, id, back) ==
    IF H.heap[back].field_type = m /\ FieldHasDefault(D, H.heap[back])
    THEN AddColumn(T, OneToOneName(f), OneToOneColumn(m, f, id, back))
    ELSE T

\* generate_column_from_field(field, database) on the table T of model m,
\* for the Field object number id
GenerateColumnFromField(H, D, T, m, id) ==
    IF T.raised # ""
    THEN T
    ELSE IF H.heap[id].field_type \in ModelNames
         THEN IF OpposedFields(H, m, H.heap[id]) = {}
              THEN [T EXCEPT !.raised = "ValueError"]
              ELSE OneToOneIfDefault(H, D, T, m, H.heap[id], id,
                       H.schema[H.heap[id].field_type][FirstKey(OpposedFields(H, m, H.heap[id]))])
         ELSE AddColumn(T, ScalarName(H.heap[id]), ScalarColumn(m, id))

\* GenericTable(model): no column yet
NewTable == [raised |-> "", columns |-> <<>>]

\* create_from_model: the loop over model._schema.fields.values()
RECURSIVE CreateFromModel(_, _, _, _, _)
CreateFromModel(H, D, T, m, i) ==
    IF i > Len(H.schema[m])
    THEN T
    ELSE CreateFromModel(H, D, GenerateColumnFromField(H, D, T, m, H.schema[m][i]), m, i + 1)

\* Database.bind, third loop: the generic table of every model, when
\* complete_fields has raised nothing
GenerateTables(H, D) ==
    [m \in ModelNames |->
        IF H.raised # "" THEN NewTable ELSE CreateFromModel(H, D, NewTable, m, 1)]

TableInit ==
    /\ memory = [fid \in FieldIds |-> NoValues]
    /\ hasInit = [o \in Obj |-> FALSE]
    /\ objModel = [o \in Obj |-> "none"]
    /\ nextObj = 1
    /\ idMapper = [m \in Models |-> [k \in Keys |-> None]]
    /\ db = [rows |-> [m \in Models |-> <<>>], seq |-> [m \in Models |-> 0]]
    /\ sqlStack = <<>>
    /\ txs = <<>>
    /\ current = None
    /\ savepointId = 0
    /\ queries = <<>>
    /\ obtained = <<>>
    /\ lookups = [m \in Models |-> [k \in Obj |-> {}]]
    /\ created = {}
    /\ txLog = <<>>
    /\ \E b \in ClassBodies :
           \E d \in {x \in ClassDefaults : \A m \in ModelNames : Len(x[m]) = Len(b[m])} :
               event = [op |-> "classes", bodies |-> b, defaults |-> d]

\* db.bind((A, B)), the generation of the tables included
BindTables ==
    /\ event.op = "classes"
    /\ event' = [op |-> "tables", bodies |-> event.bodies, defaults |-> event.defaults,
                 result |-> DatabaseBind(event.bodies),
                 tables |-> GenerateTables(DatabaseBind(event.bodies), event.defaults)]
    /\ UNCHANGED <<memory, hasInit, objModel, nextObj, idMapper, db, sqlStack,
                   txs, current, savepointId, queries, obtained, lookups, created,
                   txLog>>

NextTable == BindTables

SpecTable == TableInit /\ [][NextTable]_vars

\* ---- the calls of test_model.py, on the model Car ---------------------------
\* a variant of create that inserts an empty row before it binds
CreateBoundRowFirst(S, m, b) ==
    IF b.raised # ""
    THEN InsertRow(S, m, [c \in {} |-> None])
    ELSE CreateInstance(S, m, b.fields)

\* MetaModel.create(*args, **kwargs): bind(args, kwargs, full=True), then
\* create_instance with the bound schema
CreateBound(S, m, b) ==
    IF b.raised # "" THEN S ELSE CreateInstance(S, m, b.fields)

\* a variant of Field.__set__ without the test of set_by_database
SetUnchecked(S, o, f, value) == [state |-> SetAttr(S, o, f, value), raised |-> ""]

\* Field.__set__, from its first line: a field set by the database raises
\* SetByDatabase on an initialised instance
SetChecked(S, o, f, value) ==
    IF SetByDatabase(S.objModel[o], f) /\ S.hasInit[o]
    THEN [state |-> S, raised |-> "SetByDatabase"]
    ELSE [state |-> SetAttr(S, o, f, value), raised |-> ""]

\* what an operation may change, as it was before the operation
Before == [memory |-> memory, db |-> db, idMapper |-> idMapper, hasInit |-> hasInit,
           inside |-> current # None]

\* Car.create(*args, **kwargs) has bound its arguments to b
ModelCreateDone(b, args, kwargs) ==
    /\ b.raised = "" => nextObj <= MaxObjects
    /\ Install(CreateBound(St, "Car", b))
    /\ created' = IF b.raised = "" THEN created \cup {nextObj} ELSE created
    /\ event' = [op |-> "create", model |-> "Car", args |-> args, kwargs |-> kwargs,
                 raised |-> b.raised,
                 obj |-> IF b.raised = "" THEN nextObj ELSE None,
                 before |-> Before, txsBefore |-> txs]
    /\ UNCHANGED <<lookups, txLog>>

ModelCreate(args, kwargs) ==
    ModelCreateDone(Bind(SchemaOf("Car"), args, kwargs, TRUE), args, kwargs)

\* instance.f = v has ended as r, on an instance the client has not deleted
ModelAssignDone(r, o, f, v) ==
    /\ Install(r.state)
    /\ event' = [op |-> "assign", obj |-> o, field |-> f, value |-> v,
                 raised |-> r.raised, before |-> Before]
    /\ UNCHANGED <<lookups, created, txLog>>

ModelAssign(o, f, v) ==
    /\ objModel[o] = "Car"
    /\ hasInit[o]
    /\ ModelAssignDone(SetChecked(St, o, f, v), o, f, v)

\* instance.delete()
ModelDelete(o) ==
    /\ DeleteOp(o)
    /\ event' = [op |-> "delete", obj |-> o, key |-> PrimaryValues(St, o)]
    /\ UNCHANGED <<lookups, txLog>>

\* Car.get(id=k) has returned r.result
ModelGetDone(r, k) ==
    /\ r.state.nextObj <= MaxObjects + 2
    /\ Install(r.state)
    /\ event' = [op |-> "get", key |-> k, result |-> r.result, before |-> Before]
    /\ UNCHANGED <<lookups, created, txLog>>

ModelGet(k) == ModelGetDone(GetInstance(St, "Car", k), k)

\* with db.transaction: (one level)
ModelEnter ==
    /\ txs = <<>>
    /\ Install(TransactionEnter(St))
    /\ event' = NoEvent
    /\ UNCHANGED <<lookups, created, txLog>>

ModelExit(failed) ==
    /\ ExitOp(failed)
    /\ event' = NoEvent
    /\ UNCHANGED <<lookups, txLog>>

NextModel ==
    \/ \E args \in {<<>>, <<MaxValue>>}, kwargs \in KwargsOver({"id", "price"}) :
           ModelCreate(args, kwargs)
    \/ \E o \in Obj, f \in {"id", "price"}, v \in Values : ModelAssign(o, f, v)
    \/ \E o \in Obj : ModelDelete(o)
    \/ \E k \in 1..(MaxObjects + 1) : ModelGet(k)
    \/ ModelEnter
    \/ \E failed \in BOOLEAN : ModelExit(failed)

SpecModel == Init /\ [][NextModel]_vars

\* ---- assignments while the engine fails ---------------------------------------
\* Field.__set__ up to the engine call that raises: the instance is
\* registered and update_instance has taken its snapshot
BeforeUpdateRow(S, o) == Snapshot(RegisterInstance(S, o), o)

\* update_row is called, for an initialised instance and a field with a column
CallsUpdateRow(S, o, f, value) ==
    S.hasInit[o] /\ DOMAIN PrepareColumns(S, S.objModel[o], (f :> value)) # {}

\* a variant of Field.__set__ that stores the value in memory before it
\* updates the row
FieldSetMemoryFirst(S, o, f, value, fails) ==
    IF fails /\ CallsUpdateRow(S, o, f, value)
    THEN [state |-> StoreMemory(BeforeUpdateRow(S, o), o, f, value),
          raised |-> "RuntimeError"]
    ELSE [state |-> FieldSet(S, o, f, value), raised |-> ""]

\* Field.__set__ of a field not set by the database; `fails` says whether the
\* statement of update_row fails, which _execute turns into RuntimeError
FieldSetOrRaise(S, o, f, value, fails) ==
    IF fails /\ CallsUpdateRow(S, o, f, value)
    THEN [state |-> BeforeUpdateRow(S, o), raised |-> "RuntimeError"]
    ELSE [state |-> FieldSet(S, o, f, value), raised |-> ""]

\* car.price = v has ended as r
FailAssignDone(r, o, v, fails) ==
    /\ Install(r.state)
    /\ event' = [op |-> "assign", obj |-> o, field |-> "price", value |-> v,
                 engineFailed |-> fails /\ CallsUpdateRow(St, o, "price", v),
                 raised |-> r.raised, before |-> Before]
    /\ UNCHANGED <<lookups, created, txLog>>

\* car.price = v, on an instance the client has not deleted
FailAssign(o, v, fails) ==
    /\ objModel[o] = "Car"
    /\ hasInit[o]
    /\ FailAssignDone(FieldSetOrRaise(St, o, "price", v, fails), o, v, fails)

NextFail ==
    \/ \E v \in Values : ModelCreate(<<>>, [price |-> v])
    \/ \E o \in Obj, v \in Values, fails \in BOOLEAN : FailAssign(o, v, fails)
    \/ \E k \in 1..MaxObjects : ModelGet(k)
    \/ ModelEnter
    \/ \E failed \in BOOLEAN : ModelExit(failed)

SpecFail == Init /\ [][NextFail]_vars

\* ---- assignments to an instance at any time of its life -----------------------
\* instance.f = v, on any instance the client holds: deleted or not
KeyAssign(o, f, v) ==
    /\ objModel[o] = "Car"
    /\ ModelAssignDone(SetChecked(St, o, f, v), o, f, v)

NextKey ==
    \/ \E v \in Values : ModelCreate(<<>>, [price |-> v])
    \/ \E o \in Obj, f \in {"id", "price"}, v \in Values : KeyAssign(o, f, v)
    \/ \E o \in Obj : ModelDelete(o)
    \/ ModelEnter
    \/ \E failed \in BOOLEAN : ModelExit(failed)

SpecKey == Init /\ [][NextKey]_vars

\* ---- the identity map on its own (schema/mapper.py) ---------------------------
\* `objects.get(model)` is a dictionary: IDMapper.set creates the dictionary
\* of a model with its first entry, and nothing removes an entry before the
\* first call of delete
HasObjects(S, m) == \E k \in Keys : S.idMapper[m][k] # None

\* IDMapper.delete(model, primary): nothing when the model has no dictionary,
\* else `objects.pop(fields)`, which raises KeyError for a key that is absent
IDMapperDelete(S, m, k) ==
    IF ~HasObjects(S, m)
    THEN [state |-> S, result |-> None, raised |-> ""]
    ELSE IF S.idMapper[m][k] = None
         THEN [state |-> S, result |-> None, raised |-> "KeyError"]
         ELSE [state |-> [S EXCEPT !.idMapper[m][k] = None],
               result |-> S.idMapper[m][k], raised |-> ""]

\* the calls are made before the first delete: afterwards a dictionary may be
\* there without an entry
MapperOpen == event.op # "delete"

\* mapper.set(m, {"id": k}, o)
MapperSet(m, k, o) ==
    /\ MapperOpen
    /\ Install(IDMapperSet(St, m, k, o))
    /\ event' = [op |-> "set", model |-> m, key |-> k, obj |-> o, before |-> idMapper]
    /\ UNCHANGED <<lookups, created, txLog>>

\* mapper.delete(m, {"id": k}) has ended as r
MapperDeleteDone(r, m, k) ==
    /\ Install(r.state)
    /\ event' = [op |-> "delete", model |-> m, key |-> k, result |-> r.result,
                 raised |-> r.raised, before |-> idMapper]
    /\ UNCHANGED <<lookups, created, txLog>>

MapperDelete(m, k) ==
    /\ MapperOpen
    /\ MapperDeleteDone(IDMapperDelete(St, m, k), m, k)

NextMapper ==
    \/ \E m \in {"Car", "Book"}, k \in 0..MaxObjects, o \in 1..MaxObjects :
           MapperSet(m, k, o)
    \/ \E m \in {"Car", "Book"}, k \in 0..MaxObjects : MapperDelete(m, k)

SpecMapper == Init /\ [][NextMapper]_vars

\* ---- what a caller observes ------------------------------------------------
Price == <<"Car", "price">>

\* the object M.get(id=k) returns in the present state, None for absent
Lookup(m, k) == GetInstance(St, m, k).result

\* the object a fresh get of the instance's own key returns
FreshGet(o) == Lookup(objModel[o], PrimaryValues(St, o))

OuterRollback == event.op = "rollback" /\ event.depth = 1
OuterCommit == event.op = "commit" /\ event.depth = 1
MadeInside(log) == log.madeBefore \cup log.madeAfter \cup log.madeInner
ChangedInside(log) == log.assigned \cup log.assignedInner \cup log.assignedUndone

\* C1: every lookup (get, or an element of an executed select) that yielded
\* an instance for a model and a primary key yielded the same object.
C1_OneInstancePerKey ==
    \A m \in Models, k \in Obj : Cardinality(lookups[m][k]) <= 1

\* a lookup built the instance of one key from a stored row, a lookup of
\* another key found the instance create had returned
C1_Witness ==
    \E k \in Obj, j \in Obj :
        /\ k # j
        /\ lookups["Car"][k] # {} /\ lookups["Car"][k] \cap created = {}
        /\ lookups["Car"][j] # {} /\ lookups["Car"][j] \subseteq created

\* C2: the object create returned with key k is the object get(k) returns
\* whenever row k is in storage.
C2_CreateIsWhatGetReturns ==
    \A o \in created :
        PrimaryValues(St, o) \in RowKeys(St, objModel[o]) => FreshGet(o) = o

\* C3: after the rollback of a single outermost transaction, an instance
\* that was live with price v0 at entry and was assigned inside has price v0
\* in memory, and a fresh get of its key reports v0.
C3_SingleRollbackRestores ==
    (OuterRollback /\ ~event.log.nested) =>
        \A o \in event.log.assigned \cap event.log.entryLive :
            /\ memory[Price][o] = event.log.entryMemory[Price][o]
            /\ FreshGet(o) # None
            /\ memory[Price][FreshGet(o)] = event.log.entryMemory[Price][o]

\* C4: when an outer transaction that created instances, and whose inner
\* transaction created others and was rolled back, commits without creating
\* more, get returns each of the outer transaction's instances for its key
\* and absent for the key of each instance of the inner transaction.
C4_NestedIsolation ==
    (/\ OuterCommit
     /\ event.log.madeBefore # {} /\ event.log.undone # {}
     /\ event.log.madeAfter = {} /\ event.log.madeInner = {}) =>
        /\ \A a \in event.log.madeBefore : FreshGet(a) = a
        /\ \A b \in event.log.undone : FreshGet(b) = None

\* C5: when the outer transaction commits, an instance the outer transaction
\* assigned and a rolled-back inner transaction assigned too has the outer
\* transaction's value, in memory and in a fresh get.
C5_InnerRollbackKeepsOuterValue ==
    OuterCommit =>
        \A o \in event.log.assigned \cap event.log.assignedUndone :
            Live(St, o) =>
                /\ memory[Price][o] = event.log.lastSet[o]
                /\ FreshGet(o) # None
                /\ memory[Price][FreshGet(o)] = event.log.lastSet[o]

\* C6: after the rollback of an outermost transaction, get returns absent for
\* the key of every instance created inside it, also inside inner
\* transactions that had committed.
C6_OuterRollbackUndoesCreates ==
    OuterRollback =>
        \A o \in MadeInside(event.log) \cup event.log.undone : FreshGet(o) = None

C6_Witness ==
    /\ OuterRollback
    /\ event.log.madeBefore # {}
    /\ event.log.madeInner # {}

\* C7: after the rollback of an outermost transaction, every instance that
\* was live at entry and whose price was assigned anywhere inside has its
\* entry value in memory, and a fresh get reports it.
C7_OuterRollbackRestoresAll ==
    OuterRollback =>
        \A o \in ChangedInside(event.log) \cap event.log.entryLive :
            /\ memory[Price][o] = event.log.entryMemory[Price][o]
            /\ FreshGet(o) # None
            /\ memory[Price][FreshGet(o)] = event.log.entryMemory[Price][o]

\* C8: when an outermost transaction commits, every live instance created or
\* assigned inside it (rolled-back inner work apart) shows the last value
\* given to it, in memory and in a fresh get.
C8_CommittedWorkVisible ==
    OuterCommit =>
        \A o \in Obj :
            (event.log.lastSet[o] # None /\ Live(St, o)) =>
                /\ memory[Price][o] = event.log.lastSet[o]
                /\ FreshGet(o) # None
                /\ memory[Price][FreshGet(o)] = event.log.lastSet[o]

\* C9: a transaction scope that exits with an exception performs the rollback
\* (storage is as at entry) and lets that same exception propagate.
C9_ExceptionPropagates ==
    event.op = "rollback" =>
        /\ event.raised = event.exc
        /\ db = event.log.entryDb

C9_Witness ==
    /\ event.op = "rollback"
    /\ event.exc = "InterruptedError"
    /\ MadeInside(event.log) # {}

\* C10: an author's book is a given book exactly when that book's author is
\* that author; after `obj.field = value` the link is in place and the
\* partners obj and value had before are left without one.
C10_Reciprocity ==
    /\ \A a \in Authors, b \in Books :
           GetAttr(St, a, "book") = b <=> GetAttr(St, b, "author") = a
    /\ event.op = "link" =>
        /\ GetAttr(St, event.obj, event.field) = event.value
        /\ event.oldMirror \notin {None, event.value} =>
               GetAttr(St, event.oldMirror, event.mirror) = None
        /\ event.oldValue \notin {None, event.obj} =>
               GetAttr(St, event.oldValue, event.field) = None

C10_Witness ==
    /\ event.op = "link"
    /\ event.value # None
    /\ event.oldMirror \notin {None, event.value}
    /\ event.oldValue \notin {None, event.obj}

\* C11: a get filtered by the relationship field returns the partner of the
\* given instance whenever it has one: Book.get(author=a) is a's book and
\* Author.get(book=b) is b's author.
C11_GetByRelation ==
    (event.op = "getby" /\ GetAttr(St, event.value, Mirror(event.model, event.field)[2]) # None) =>
        event.result = GetAttr(St, event.value, Mirror(event.model, event.field)[2])

\* C12: after M.create(values) has succeeded with key k, M.get(k) returns an
\* object whose every field has the value supplied, or the field's default.
C12_CreateGetRoundTrip ==
    (event.op = "create" /\ event.raised = "") =>
        /\ FreshGet(event.obj) # None
        /\ \A i \in 2..Len(FieldNames(event.model)) :
               GetAttr(St, FreshGet(event.obj), FieldNames(event.model)[i]) =
                   IF FieldNames(event.model)[i] \in DOMAIN event.kwargs
                   THEN event.kwargs[FieldNames(event.model)[i]]
                   ELSE DefaultOf(event.model, FieldNames(event.model)[i])

\* C13: outside any transaction, after `x.price = v` on a live instance x,
\* x.price is v in memory, a fresh get of x's key reports v, and no other
\* instance and no other row has changed.
C13_AssignOutsideTransaction ==
    (/\ event.op = "assign" /\ event.raised = "" /\ ~event.before.inside
     /\ PrimaryValues(St, event.obj) \in DOMAIN event.before.db.rows["Car"]) =>
        /\ memory[Price][event.obj] = event.value
        /\ FreshGet(event.obj) # None
        /\ memory[Price][FreshGet(event.obj)] = event.value
        /\ \A o \in Obj \ {event.obj}, fid \in FieldIds :
               memory[fid][o] = event.before.memory[fid][o]
        /\ RowKeys(St, "Car") = DOMAIN event.before.db.rows["Car"]
        /\ \A k \in RowKeys(St, "Car") \ {PrimaryValues(St, event.obj)} :
               db.rows["Car"][k] = event.before.db.rows["Car"][k]

\* C14: M.get(id=k) returns absent whenever storage holds no row with key k,
\* and storage holds no row with the key of an instance after its delete().
C14_GetAbsent ==
    /\ (event.op = "get" /\ event.key \notin DOMAIN event.before.db.rows["Car"]) =>
           event.result = None
    /\ event.op = "delete" =>
           /\ event.key \notin RowKeys(St, "Car")
           /\ Lookup("Car", event.key) = None

\* a get of the key of a deleted instance, which the identity map still holds
C14_Witness ==
    /\ event.op = "get"
    /\ event.key \notin DOMAIN event.before.db.rows["Car"]
    /\ idMapper["Car"][event.key] # None
    /\ ~hasInit[idMapper["Car"][event.key]]

\* C15: a get whose filter matches more than one stored row returns absent.
C15_AmbiguousGetAbsent ==
    (/\ event.op = "getby" /\ event.model = "Car"
     /\ Cardinality(SelectRows(St, "Car", event.value)) > 1) =>
        event.result = None

\* C16: M.create with an explicit value for a field set by the database
\* fails with ForbiddenArgument, whatever its other arguments are.
C16_ForbiddenArgument ==
    (/\ event.op = "bound" /\ event.full
     /\ \E i \in DOMAIN event.result.fields :
            /\ AsSchema(event.result.fields)[i].set_by_database
            /\ event.result.fields[i].name \in DOMAIN event.kwargs) =>
        event.bound.raised = "ForbiddenArgument"

\* C17: M.create without a value for a field that has no default and is not
\* set by the database fails with MissingArgument.
C17_MissingArgument ==
    (/\ event.op = "bound" /\ event.full
     /\ \E i \in DOMAIN event.result.fields :
            /\ ~AsSchema(event.result.fields)[i].set_by_database
            /\ ~event.result.fields[i].has_default
            /\ event.result.fields[i].name \notin DOMAIN event.kwargs) =>
        event.bound.raised = "MissingArgument"

\* C20: resolving a class without a primary key field puts the synthesized
\* integer primary key `id`, set by the database, first and the declared
\* fields after it; with a declared field named id that is not primary,
\* resolution fails with ValueError.
C20_SynthesizedKey ==
    (event.op = "resolved" /\ ~HasPrimary(event.declared)) =>
        IF "id" \in NamesOf(event.declared)
        THEN event.result.raised = "ValueError"
        ELSE /\ event.result.raised = ""
             /\ Head(event.result.fields) = PrimaryKeyField
             /\ AsSchema(event.result.fields)[1].set_by_database
             /\ Tail(event.result.fields) = event.declared

\* a class that declares two fields, none primary and none named id
C20_Witness ==
    /\ event.op = "resolved"
    /\ ~HasPrimary(event.declared)
    /\ Len(event.declared) = MaxFields
    /\ event.result.raised = ""

\* C18: `x.id = v` on an instance that has been created raises SetByDatabase
\* and leaves memory, storage and the identity map as they were.
C18_KeyIsReadOnly ==
    (event.op = "assign" /\ event.field = "id") =>
        /\ event.raised = "SetByDatabase"
        /\ memory = event.before.memory
        /\ db = event.before.db
        /\ idMapper = event.before.idMapper

\* the key of a live instance was assigned a value it does not have
C18_Witness ==
    /\ event.op = "assign" /\ event.field = "id"
    /\ Live(St, event.obj)
    /\ event.value # PrimaryValues(St, event.obj)

\* C19: a query object calls select_rows at most once, when it is first
\* iterated, and keeps the list; every later iteration returns that list
\* without another call, whatever the list and the table hold by then.
C19_QueryExecutesOnce ==
    /\ \A q \in 1..Len(queries) :
           /\ queries[q].calls <= 1
           /\ queries[q].hasResults <=> queries[q].calls = 1
    /\ event.op = "iterate" =>
           /\ queries[event.query].hasResults
           /\ event.returned = queries[event.query].results
           /\ event.before.hasResults =>
                  /\ queries[event.query] = event.before
                  /\ db.rows["Car"] = event.rowsBefore

\* a second iteration returned the empty list the first had cached, while
\* the table holds a row that matches the query
C19_Witness ==
    /\ event.op = "iterate"
    /\ event.before.hasResults
    /\ event.returned = <<>>
    /\ SelectRows(St, "Car", queries[event.query].value) # {}

\* C21: resolving a class in which more than one field is marked primary key
\* fails with ValueError.
C21_SeveralPrimaryKeys ==
    (/\ event.op = "resolved"
     /\ Cardinality({i \in DOMAIN event.declared : event.declared[i].primary_key}) > 1) =>
        event.result.raised = "ValueError"

\* the fields of the schemas after bind whose type is another class: pairs
\* <<class, position>>
RelationFields(H) ==
    {p \in ModelNames \X (1..MaxRelations) :
        /\ p[2] \in DOMAIN H.schema[p[1]]
        /\ H.heap[H.schema[p[1]][p[2]]].field_type \in ModelNames \ {p[1]}}

\* the field is mirrored with a field of the schema of its type, which is
\* mirrored back to it
Reciprocal(H, id) ==
    /\ H.heap[id].mirror # 0
    /\ H.heap[H.heap[id].mirror].mirror = id
    /\ \E j \in DOMAIN H.schema[H.heap[id].field_type] :
           H.schema[H.heap[id].field_type][j] = H.heap[id].mirror

\* C22: after bind every field whose type is another class is mirrored with
\* a field of that class's schema that is mirrored back to it, or bind has
\* failed with ValueError and some class has no field pointing back.
C22_MirrorsReciprocal ==
    event.op = "bind" =>
        IF event.result.raised = ""
        THEN \A p \in RelationFields(event.result) :
                 Reciprocal(event.result, event.result.schema[p[1]][p[2]])
        ELSE /\ event.result.raised = "ValueError"
             /\ \E m \in ModelNames, i \in 1..MaxRelations :
                    /\ i \in DOMAIN event.bodies[m]
                    /\ event.bodies[m][i] \in ModelNames
                    /\ \A j \in DOMAIN event.bodies[event.bodies[m][i]] :
                           event.bodies[event.bodies[m][i]][j] # m

\* v is the string t written in lower case: the same letters, no capital
InLowerCase(v, t) ==
    /\ Len(Decode(v)) = Len(Decode(t))
    /\ \A i \in DOMAIN Decode(v) :
           /\ Letter(Decode(v)[i]) = Letter(Decode(t)[i])
           /\ ~IsUpper(Decode(v)[i])

SelectedKeys == {PrimaryValues(St, event.results[i]) : i \in DOMAIN event.results}

\* C23: a select filtered with .lower() returns exactly the rows whose value,
\* written in lower case, is the value of the query: capitals outside ASCII
\* are lowered too.
C23_UnicodeLower ==
    event.op = "selectlower" =>
        \A k \in RowKeys(St, "Author") :
            k \in SelectedKeys <=> InLowerCase(event.value, db.rows["Author"][k]["name"])

\* a select has returned a row whose value holds a capital outside ASCII
C23_Witness ==
    /\ event.op = "selectlower"
    /\ \E k \in SelectedKeys :
           \E i \in DOMAIN Decode(db.rows["Author"][k]["name"]) :
               /\ IsUpper(Decode(db.rows["Author"][k]["name"])[i])
               /\ ~IsAscii(Decode(db.rows["Author"][k]["name"])[i])

\* the snapshots of the transaction t before a step are kept by it: none is
\* dropped or altered
SnapshotsKept(t) ==
    /\ Len(txs'[t].objects) >= Len(txs[t].objects)
    /\ SubSeq(txs'[t].objects, 1, Len(txs[t].objects)) = txs[t].objects

\* a snapshot the step adds to the transaction t holds the values the
\* instance had before the step
SnapshotsFromBefore(t) ==
    \A i \in (Len(txs[t].objects) + 1)..Len(txs'[t].objects) :
        txs'[t].objects[i].attrs = Attrs(St, txs'[t].objects[i].obj)

\* the partner an assignment inside a transaction gives a new link to is in
\* the snapshots of that transaction after the step
PartnerSnapshotted ==
    (event'.op = "link" /\ current # None /\ event'.value # None)
        => \E i \in 1..Len(txs'[current].objects) :
               txs'[current].objects[i].obj = event'.value

\* C24: within one transaction the snapshot of an instance is taken at the
\* first update of that instance, holds the values all its fields had before
\* that change, and no later step of the transaction modifies it.
C24_SnapshotAtFirstTouch ==
    [][/\ PartnerSnapshotted
       /\ \A t \in 1..Len(txs) :
              t <= Len(txs') => SnapshotsKept(t) /\ SnapshotsFromBefore(t)]_vars

\* C25: while a rolled-back transaction replays its snapshots, no row of the
\* storage is written and no transaction records a snapshot.
C25_ReplayIsSilent ==
    event.op = "rollback" => ~event.wrote /\ ~event.recorded

\* C29: after a rollback every instance that existed when the transaction was
\* entered shows the partner it showed at entry: the instance whose
\* relationship was reassigned inside the transaction, its new partner and
\* both previous partners have their links back.
C29_RollbackRestoresLinks ==
    event.op = "rollback" =>
        \A o \in event.entry.allocated : RelLinks(St)[o] = event.entry.links[o]

\* the books an assignment gives a link to or takes a link from
BooksOfLink ==
    (IF event.field = "author"
     THEN {event.obj, event.oldValue}
     ELSE {event.value, event.oldMirror}) \ {None}

\* the author_id column of the book's row holds the key of the author the book
\* shows in memory, or null when it shows none
ForeignKeyAgrees(b) ==
    /\ PrimaryValues(St, b) \in RowKeys(St, "Book")
    /\ db.rows["Book"][PrimaryValues(St, b)]["author_id"]
           = PrimaryOf(St, GetAttr(St, b, "author"))

\* C30: after a one-to-one assignment on a created instance, from the book's
\* side or the author's, of an instance or of None, the foreign-key column of
\* every book concerned agrees with the link the book shows in memory.
C30_ForeignKeyFollowsLink ==
    (event.op = "link" /\ event.existing) => \A b \in BooksOfLink : ForeignKeyAgrees(b)

EndOf(parent, failed) ==
    IF parent # None
    THEN IF failed THEN "ROLLBACK TRANSACTION TO SAVEPOINT" ELSE "RELEASE SAVEPOINT"
    ELSE IF failed THEN "ROLLBACK" ELSE "COMMIT"

\* C27: entering a transaction makes one call to the engine, SAVEPOINT with a
\* parent and BEGIN TRANSACTION without; leaving it makes one call, the commit
\* on a normal exit and the rollback on an exception, in the savepoint form
\* with a parent and in the outer form without.
C27_OneBeginOneEnd ==
    /\ event.op = "enter" =>
           /\ Len(event.calls) = 1
           /\ event.calls[1].sql = IF event.parent # None THEN "SAVEPOINT"
                                   ELSE "BEGIN TRANSACTION"
    /\ event.op = "exit" =>
           /\ Len(event.entry.calls) = 1
           /\ Len(event.calls) = 1
           /\ event.calls[1].sql = EndOf(event.entry.parent, event.failed)

\* a nested transaction has exited with an exception through ROLLBACK TO
\* SAVEPOINT
C27_Witness ==
    /\ event.op = "exit"
    /\ event.failed
    /\ event.entry.parent # None
    /\ event.entry.calls[1].sql = "SAVEPOINT"
    /\ event.calls[1].sql = "ROLLBACK TRANSACTION TO SAVEPOINT"

\* C28: the savepoint numbers the engine names grow strictly, so none is named
\* twice, and a nested transaction ends on the savepoint it began with.
C28_SavepointIds ==
    /\ \A i, j \in 1..Len(Handed) : i < j => Handed[i] < Handed[j]
    /\ (event.op = "exit" /\ event.entry.parent # None) =>
           event.calls[1].id = event.entry.calls[1].id

\* a nested transaction ends on its own savepoint after a later savepoint was
\* named inside it
C28_Witness ==
    /\ event.op = "exit"
    /\ event.entry.parent # None
    /\ Len(Handed) >= 2
    /\ event.calls[1].id = event.entry.calls[1].id
    /\ event.calls[1].id < Handed[Len(Handed)]

\* C31: whenever no transaction is open, every entry of the identity map
\* under a key k of the model M has a row with the key k in M's table; the
\* entries of deleted instances and of instances created in a transaction
\* that was rolled back are gone.
C31_MapEntriesHaveRows ==
    current = None =>
        \A m \in Models, k \in Keys \ {None} :
            idMapper[m][k] # None => k \in RowKeys(St, m)

\* the instance is live, memory and row hold the price, get of its key
\* returns it, and an assignment on it reaches its row
LiveAgain(o, price) ==
    /\ Live(St, o)
    /\ memory[Price][o] = price
    /\ db.rows["Car"][PrimaryValues(St, o)]["price"] = price
    /\ FreshGet(o) = o
    /\ \A v \in Values :
           FieldSet(St, o, "price", v).db.rows["Car"][PrimaryValues(St, o)]["price"] = v

\* the instances that were live when the transaction of the log was entered
\* and were deleted inside it, or inside a committed transaction nested in
\* it, with the values they had at entry
DeletedInside(log) ==
    {o \in (log.deleted \cup log.deletedInner) \cap log.entryLive :
        log.preDelete[o] = log.entryPrice[o]}

\* C32: an instance that was live when a transaction was entered and was
\* deleted inside it is live again once the transaction is rolled back: its
\* row is back, get of its key returns it with the values it had before the
\* delete, and assignments on it are written to storage.
C32_DeleteRolledBack ==
    event.op = "rollback" =>
        \A o \in DeletedInside(event.log) : LiveAgain(o, event.log.preDelete[o])

\* C33: the parent of a transaction whose scope is entered is the transaction
\* that is current at that moment, and the statement that begins it is
\* SAVEPOINT exactly when a transaction is open, also for a Transaction object
\* obtained before another scope was entered.
C33_ParentIsCurrentAtEntry ==
    event.op = "enter" =>
        /\ event.parent = event.currentBefore
        /\ event.statement = "SAVEPOINT" <=> event.currentBefore # None

\* C34: a create that fails with MissingArgument or ForbiddenArgument has no
\* effect: the rows and the key sequence of storage, the identity map, the
\* fields in memory and the snapshots of the transactions are as before.
C34_FailedCreateHasNoEffect ==
    (event.op = "create" /\ event.raised \in {"MissingArgument", "ForbiddenArgument"}) =>
        /\ db = event.before.db
        /\ idMapper = event.before.idMapper
        /\ memory = event.before.memory
        /\ hasInit = event.before.hasInit
        /\ txs = event.txsBefore

\* a create has failed with MissingArgument inside a transaction that holds a
\* snapshot, with a row in the table
C34_Witness ==
    /\ event.op = "create"
    /\ event.raised = "MissingArgument"
    /\ current # None
    /\ txs[current].objects # <<>>
    /\ RowKeys(St, "Car") # {}

\* C35: when update_row raises during a field assignment, the exception
\* reaches the caller and the instance's value of that field in memory is
\* still the one it had before the assignment.
C35_StorageBeforeMemory ==
    (event.op = "assign" /\ event.engineFailed) =>
        /\ event.raised = "RuntimeError"
        /\ memory[<<"Car", event.field>>][event.obj]
               = event.before.memory[<<"Car", event.field>>][event.obj]

\* update_row has raised during the assignment of a value other than the one
\* the instance holds
C35_Witness ==
    /\ event.op = "assign"
    /\ event.engineFailed
    /\ event.raised = "RuntimeError"
    /\ event.value # memory[<<"Car", event.field>>][event.obj]

\* C36: the key storage gave an instance never changes once creation has
\* returned the instance: no step changes the id of a created instance,
\* assignments to a deleted or a restored instance included
C36_KeyNeverChanges ==
    [][\A o \in created :
           memory'[<<"Car", "id">>][o] = memory[<<"Car", "id">>][o]]_vars

\* the same, for the steps taken on instances that are not deleted
C36_KeyOfLiveNeverChanges ==
    [][\A o \in created :
           hasInit[o] => memory'[<<"Car", "id">>][o] = memory[<<"Car", "id">>][o]]_vars

\* C37: IDMapper.set is first writer wins: with an entry already there for
\* (model, key) the map stays exactly as it was, and with none the map gains
\* that one entry and no other entry changes
C37_SetFirstWriterWins ==
    event.op = "set" =>
        IF event.before[event.model][event.key] # None
        THEN idMapper = event.before
        ELSE idMapper = [event.before EXCEPT ![event.model][event.key] = event.obj]

\* set was called with another instance for a key that had an entry
C37_Witness ==
    /\ event.op = "set"
    /\ event.before[event.model][event.key] # None
    /\ event.before[event.model][event.key] # event.obj

\* C38: IDMapper.delete removes and returns the entry of (model, key) when
\* there is one; when there is none it raises nothing and changes nothing,
\* whether the model has no entry at all or entries for other keys only
C38_DeleteIsQuiet ==
    event.op = "delete" =>
        IF event.before[event.model][event.key] # None
        THEN /\ event.raised = ""
             /\ event.result = event.before[event.model][event.key]
             /\ idMapper = [event.before EXCEPT ![event.model][event.key] = None]
        ELSE /\ event.raised = ""
             /\ idMapper = event.before

\* the same, except for a model that has entries for other keys only
C38_DeleteOfKnownOrEmpty ==
    (event.op = "delete" /\ event.raised # "KeyError") =>
        IF event.before[event.model][event.key] # None
        THEN /\ event.raised = ""
             /\ event.result = event.before[event.model][event.key]
             /\ idMapper = [event.before EXCEPT ![event.model][event.key] = None]
        ELSE /\ \A k \in Keys : event.before[event.model][k] = None
             /\ idMapper = event.before

\* the fields of m's schema whose type is a bound class all have a mirror
AlreadyMirrored(H, m) ==
    \A i \in DOMAIN H.schema[m] :
        H.heap[H.schema[m][i]].field_type \in ModelNames =>
            H.heap[H.schema[m][i]].mirror # 0

\* C39: complete_fields run again on a model whose relationship fields are
\* mirrored already changes nothing: the Field objects, their mirrors and
\* the schemas of both classes are what they were
C39_CompleteFieldsIdempotent ==
    (event.op = "again" /\ AlreadyMirrored(event.before, event.model)) =>
        /\ event.result.heap = event.before.heap
        /\ event.result.schema = event.before.schema
        /\ event.result.raised = ""

\* complete_fields has run again on a class that has a mirrored relation
C39_Witness ==
    /\ event.op = "again"
    /\ AlreadyMirrored(event.before, event.model)
    /\ \E i \in DOMAIN event.before.schema[event.model] :
           event.before.heap[event.before.schema[event.model][i]].mirror # 0

\* after a bind that raised nothing every class is in that case
C39_BoundIsMirrored ==
    event.op = "again" => AlreadyMirrored(event.before, event.model)

\* the table of model m holds a foreign-key column for the Field object id
HoldsColumnFor(m, id) ==
    \E n \in DOMAIN event.tables[m].columns :
        /\ event.tables[m].columns[n].kind = "one2one"
        /\ event.tables[m].columns[n].from_field = id

\* the relationship fields of the schemas after bind, as Field object numbers
RelationIds ==
    {event.result.schema[p[1]][p[2]] : p \in RelationFields(event.result)}

\* the default of the Field object id, and of its mirror
OwnDefault(id) == FieldHasDefault(event.defaults, event.result.heap[id])
MirrorOf(id) == event.result.heap[id].mirror

\* C40: after bind, of the two tables of a resolved relationship exactly one
\* holds the foreign-key column: the table of the side whose own field has no
\* default, the opposite field being the one that has a default
C40_OneSideHoldsTheKey ==
    (event.op = "tables" /\ event.result.raised = "") =>
        \A id \in RelationIds :
            /\ HoldsColumnFor(event.result.heap[id].model, id)
                   # HoldsColumnFor(event.result.heap[MirrorOf(id)].model, MirrorOf(id))
            /\ HoldsColumnFor(event.result.heap[id].model, id)
                   <=> (~OwnDefault(id) /\ OwnDefault(MirrorOf(id)))

\* each class declares one field, of the other class
OneRelationEach ==
    /\ event.bodies = [m \in ModelNames |-> <<CHOOSE n \in ModelNames : n # m>>]

\* the same, for two classes with one relationship field each, one of the two
\* fields declared with a default
C40_OneDefaultSide ==
    (/\ event.op = "tables"
     /\ OneRelationEach
     /\ event.defaults["A"][1] # event.defaults["B"][1]) =>
        \A id \in RelationIds :
            /\ HoldsColumnFor(event.result.heap[id].model, id)
                   # HoldsColumnFor(event.result.heap[MirrorOf(id)].model, MirrorOf(id))
            /\ HoldsColumnFor(event.result.heap[id].model, id)
                   <=> (~OwnDefault(id) /\ OwnDefault(MirrorOf(id)))

\* both fields of the relationship are declared with a default, and both
\* tables hold a foreign-key column
C40_BothSidesHoldAKey ==
    /\ event.op = "tables"
    /\ OneRelationEach
    /\ event.defaults["A"][1] /\ event.defaults["B"][1]
    /\ \A id \in RelationIds : HoldsColumnFor(event.result.heap[id].model, id)

\* no field of the relationship is declared with a default, and no table
\* holds a foreign-key column
C40_NoSideHoldsAKey ==
    /\ event.op = "tables"
    /\ OneRelationEach
    /\ ~event.defaults["A"][1] /\ ~event.defaults["B"][1]
    /\ \A id \in RelationIds : ~HoldsColumnFor(event.result.heap[id].model, id)

====
